---- MODULE Spec2Model ----
(***************************************************************************)
(* Model of the dify_plugin_client request / response / error-mapping      *)
(* engine: impl/base.py (transport, envelope unwrap, stream decoder, error *)
(* dispatcher) and impl/plugin.py (domain operations, provider-reference   *)
(* parsing, parameter normalization).                                      *)
(*                                                                         *)
(* Python strings that the code takes apart (provider references, names)   *)
(* are sequences of one-character strings; opaque texts are TLA+ strings.  *)
(***************************************************************************)
EXTENDS Integers, Sequences, FiniteSets, TLC

VARIABLES self, call, reqLog, resp, unwrapped, ret, stream

vars == <<self, call, reqLog, resp, unwrapped, ret, stream>>

(***************************************************************************)
(* Bounds of the model.                                                    *)
(***************************************************************************)
MaxRefLen == 5
MaxLines == 2
MaxBlank == 1
MaxMetas == 2
MaxDepth == 12

(***************************************************************************)
(* Outcomes of a call: a returned value or a raised exception.             *)
(***************************************************************************)
\* Values carry their type first: <<"bool", TRUE>>, <<"task", t>>, ...
NoVal == <<"none">>

Bool(b) == <<"bool", b>>

NoErr == [kind |-> "", tag |-> "", code |-> 0, error_type |-> "", text |-> "", shape |-> ""]

Err(kind, tag, code, error_type, text, shape) ==
  [kind |-> kind, tag |-> tag, code |-> code, error_type |-> error_type,
   text |-> text, shape |-> shape]

Return(v) == [st |-> "return", val |-> v, err |-> NoErr]

Raise(e) == [st |-> "raise", val |-> NoVal, err |-> e]

NoOutcome == [st |-> "none", val |-> NoVal, err |-> NoErr]

(***************************************************************************)
(* exceptions.py: the local error kinds, named as the classes.             *)
(***************************************************************************)
KnownErrorTypes ==
  {"PluginDaemonInnerError", "PluginInvokeError", "PluginDaemonInternalServerError",
   "PluginDaemonBadRequestError", "PluginDaemonNotFoundError",
   "PluginUniqueIdentifierError", "PluginNotFoundError",
   "PluginDaemonUnauthorizedError", "PluginPermissionDeniedError"}

\* error_type strings the daemon may send: the nine known ones and others.
ErrorTypes == KnownErrorTypes \cup {"PluginFutureError", ""}

Texts == {"m1", "m2"}

\* PluginDaemonInnerError.__init__(code, message)
PluginDaemonInnerError(code, message) ==
  Err("PluginDaemonInnerError", "inner", code, "", message, "plain")

\* The plain PluginError subclasses, constructed with the message only.
PluginError(kind, message) == Err(kind, "plugin", 0, "", message, "plain")

\* BasePluginClient._handle_plugin_daemon_error: always raises.
_handle_plugin_daemon_error_swapped(error_type, message) ==
  CASE error_type = "PluginDaemonInnerError" -> PluginDaemonInnerError(-500, message)
    [] error_type = "PluginInvokeError" -> PluginError("PluginDaemonNotFoundError", message)
    [] error_type = "PluginDaemonNotFoundError" -> PluginError("PluginInvokeError", message)
    [] error_type \in KnownErrorTypes -> PluginError(error_type, message)
    [] OTHER -> Err("Exception", "unknown", 0, error_type, message, "plain")

_handle_plugin_daemon_error(error_type, message) ==
  CASE error_type = "PluginDaemonInnerError" -> PluginDaemonInnerError(-500, message)
    [] error_type = "PluginInvokeError" -> PluginError("PluginInvokeError", message)
    [] error_type = "PluginDaemonInternalServerError" ->
         PluginError("PluginDaemonInternalServerError", message)
    [] error_type = "PluginDaemonBadRequestError" ->
         PluginError("PluginDaemonBadRequestError", message)
    [] error_type = "PluginDaemonNotFoundError" ->
         PluginError("PluginDaemonNotFoundError", message)
    [] error_type = "PluginUniqueIdentifierError" ->
         PluginError("PluginUniqueIdentifierError", message)
    [] error_type = "PluginNotFoundError" -> PluginError("PluginNotFoundError", message)
    [] error_type = "PluginDaemonUnauthorizedError" ->
         PluginError("PluginDaemonUnauthorizedError", message)
    [] error_type = "PluginPermissionDeniedError" ->
         PluginError("PluginPermissionDeniedError", message)
    [] OTHER -> Err("Exception", "unknown", 0, error_type, message, "plain")

(***************************************************************************)
(* entities/plugin_daemon.py: the envelope message.  A message string is   *)
(* described by what json.loads and PluginDaemonError.model_validate make  *)
(* of it: "structured" is a JSON object {error_type, message}, "plain" is  *)
(* not JSON, "json_other" is JSON of another shape.  For a structured      *)
(* message text is the inner message; the raw string is the whole record.  *)
(***************************************************************************)
Msg(shape, error_type, text) == [shape |-> shape, error_type |-> error_type, text |-> text]

StructuredMsgs == {Msg("structured", et, t) : et \in ErrorTypes, t \in Texts}

PlainMsgs == {Msg("plain", "", t) : t \in Texts} \cup {Msg("json_other", "", "m1")}

Messages == StructuredMsgs \cup PlainMsgs

OkMsg == Msg("plain", "", "m1")

\* PluginDaemonError.model_validate(json.loads(message)): ok or an exception.
ParseDaemonError(message) ==
  IF message.shape = "structured"
    THEN [ok |-> TRUE, error_type |-> message.error_type, message |-> message.text]
    ELSE [ok |-> FALSE, error_type |-> "", message |-> ""]

(***************************************************************************)
(* PluginDaemonBasicResponse[T]: code, message and data (T | None).  data  *)
(* is absent (the key is missing, or it is null: both validate to None),   *)
(* or present and valid or invalid for T.                                  *)
(***************************************************************************)
Codes == {0, -500, 1}

Absent == [present |-> FALSE, null |-> FALSE, valid |-> TRUE, value |-> NoVal]

Null == [present |-> FALSE, null |-> TRUE, valid |-> TRUE, value |-> NoVal]

Data(v) == [present |-> TRUE, null |-> FALSE, valid |-> TRUE, value |-> v]

Invalid == [present |-> TRUE, null |-> FALSE, valid |-> FALSE, value |-> NoVal]

\* A response body / stream line text, by what the JSON parser makes of it:
\*   "envelope"     a JSON object with an int code and a str message
\*   "json_object"  a JSON object that is no envelope
\*   "json_other"   JSON that is not an object
\*   "not_json"     not JSON
Body(kind, code, message, data, has_error) ==
  [kind |-> kind, code |-> code, message |-> message, data |-> data, has_error |-> has_error]

Envelope(code, message, data) == Body("envelope", code, message, data, FALSE)

NotJson == Body("not_json", 0, OkMsg, Absent, FALSE)

DataChoices(Values) == {Absent, Null, Invalid} \cup {Data(v) : v \in Values}

\* Envelopes with the given messages for a non-zero code; a code 0 envelope
\* carries the message OkMsg.
EnvelopesWith(Msgs, DataSet) ==
  {Envelope(c, m, d) : c \in Codes \ {0}, m \in Msgs, d \in DataSet} \cup
  {Envelope(0, OkMsg, d) : d \in DataSet}

Envelopes(Values) == EnvelopesWith(Messages, DataChoices(Values))

Bodies(Values) ==
  Envelopes(Values) \cup
  {NotJson, Body("json_other", 0, OkMsg, Absent, FALSE),
   Body("json_object", 0, OkMsg, Absent, FALSE), Body("json_object", 0, OkMsg, Absent, TRUE)}

\* PluginDaemonBasicResponse[type_].model_validate succeeds
ValidEnvelope(body) == body.kind = "envelope" /\ body.data.valid

(***************************************************************************)
(* What httpx gives for one single-shot request: a transport failure       *)
(* (httpx.RequestError) or a response with a status and a body.            *)
(***************************************************************************)
Statuses == {200, 201, 404, 500}

\* httpx.Response.is_success, the test of raise_for_status
IsSuccess(status) == status >= 200 /\ status <= 299

Response(transport_ok, status, body) ==
  [transport_ok |-> transport_ok, status |-> status, body |-> body]

NoResp == Response(TRUE, 0, NotJson)

TransportFailure == Response(FALSE, 0, NotJson)

Responses(Values) ==
  {TransportFailure} \cup
  {Response(TRUE, s, b) : s \in {200}, b \in Bodies(Values)} \cup
  {Response(TRUE, s, b) : s \in Statuses \ {200},
                          b \in {NotJson, Envelope(0, OkMsg, Absent)} \cup
                                {Envelope(0, OkMsg, Data(v)) : v \in Values}}

(***************************************************************************)
(* impl/base.py: transport.                                                *)
(***************************************************************************)
\* PluginConfig with its defaults
PluginConfig == [url |-> "http://localhost:5002", key |-> "plugin-api-key", timeout |-> 300]

\* BasePluginClient.__init__: the fields of the client instance
BasePluginClient(config) ==
  [config |-> config, base_url |-> config.url, timeout |-> config.timeout]

\* self.base_url and self.config.key, read by every request.
ConfigUrl == self.base_url

ConfigKey == self.config.key

TenantId == "t1"

NoHeaders == [n \in {} |-> ""]

JsonHeaders == [n \in {"Content-Type"} |-> "application/json"]

\* The data argument: nothing, a dict, or bytes/str.
NoData == [type |-> "none", value |-> NoVal]

DictData(d) == [type |-> "dict", value |-> d]

\* The headers argument: None, or a dict
NoneHeaders == [given |-> FALSE, value |-> NoHeaders]

GivenHeaders(h) == [given |-> TRUE, value |-> h]

\* `dict(headers or {})`, line 88
HeadersOrEmpty(headers) == IF headers.given THEN headers.value ELSE NoHeaders

PreparedHeadersKeyDefault(headers) ==
  [n \in DOMAIN headers \cup {"X-Api-Key", "Accept-Encoding"} |->
     IF n \in DOMAIN headers THEN headers[n]
     ELSE IF n = "X-Api-Key" THEN ConfigKey
     ELSE "gzip, deflate, br"]

\* BasePluginClient._prepare_request, the headers
PreparedHeaders(headers) ==
  [n \in DOMAIN headers \cup {"X-Api-Key", "Accept-Encoding"} |->
     IF n = "X-Api-Key" THEN ConfigKey
     ELSE IF n \in DOMAIN headers THEN headers[n]
     ELSE "gzip, deflate, br"]

\* BasePluginClient._prepare_request, the body: a dict is serialized with
\* json.dumps when Content-Type is exactly application/json, else kept.
PreparedData(prepared_headers, data) ==
  IF data.type = "dict"
    THEN IF "Content-Type" \in DOMAIN prepared_headers
            /\ prepared_headers["Content-Type"] = "application/json"
           THEN [enc |-> "json", value |-> data.value]
           ELSE [enc |-> "form", value |-> data.value]
    ELSE [enc |-> data.type, value |-> data.value]

\* The request handed to httpx.request ("single") or httpx.stream ("stream").
PreparedRequest(kind, method, path, headers, data, params) ==
  [kind |-> kind, method |-> method, url |-> <<ConfigUrl>> \o path,
   headers |-> PreparedHeaders(headers),
   data |-> PreparedData(PreparedHeaders(headers), data),
   params |-> params]

\* One entry of the log of requests issued by the current call.
Logged(request, outcome) == [request |-> request, outcome |-> outcome]

\* BasePluginClient._request: httpx.RequestError becomes
\* PluginDaemonInnerError(code=-500); else the response is returned.
_request(response) ==
  IF ~response.transport_ok
    THEN Raise(PluginDaemonInnerError(-500, "Request to Plugin Daemon Service failed"))
    ELSE Return(response)

(***************************************************************************)
(* impl/plugin.py: resolve_dify_schema_refs.  A JSON node carries its type *)
(* first; a dict is the sequence of its items in insertion order, a string *)
(* is the sequence of its parts between "/" (what str.split("/") gives).   *)
(***************************************************************************)
Item(k, v) == [k |-> k, v |-> v]

SDict(items) == <<"dict", items>>

SList(elements) == <<"list", elements>>

SStr(parts) == <<"str", parts>>

SInt(n) == <<"int", n>>

SNone == <<"none", <<>>>>

SKeys(node) == IF node[1] = "dict" THEN {node[2][i].k : i \in 1..Len(node[2])} ELSE {}

\* node.get(k) of a dict
SGet(node, k) ==
  IF k \in SKeys(node) THEN node[2][CHOOSE i \in 1..Len(node[2]) : node[2][i].k = k].v
  ELSE SNone

\* bool(node), the test of `or`
STruthy(node) ==
  CASE node[1] = "none" -> FALSE
    [] node[1] = "int" -> node[2] # 0
    [] node[1] = "str" -> node[2] # <<"">>
    [] OTHER -> node[2] # <<>>

\* Line 38: the definitions every reference is looked up in
SchemaDefinitions(schema) ==
  IF STruthy(SGet(schema, "$defs")) THEN SGet(schema, "$defs")
  ELSE IF STruthy(SGet(schema, "definitions")) THEN SGet(schema, "definitions")
  ELSE SDict(<<>>)

\* Line 43: isinstance(ref, str) and ref starts with "#/$defs/" or
\* "#/definitions/"
IsDefinitionRef(ref) ==
  /\ ref[1] = "str"
  /\ Len(ref[2]) >= 3
  /\ ref[2][1] = "#"
  /\ ref[2][2] \in {"$defs", "definitions"}

\* Line 44: ref.rsplit("/", 1)[-1]
RefKey(ref) == ref[2][Len(ref[2])]

\* Line 45: definitions.get(key)
TargetOrEmpty(definitions, key) ==
  IF key \in SKeys(definitions) THEN SGet(definitions, key) ELSE SDict(<<>>)

Target(definitions, key) == SGet(definitions, key)

\* {**a, **b}: the items of a, those b also has replaced in place, then the
\* other items of b
RECURSIVE Merged(_, _)
Merged(a, b) ==
  IF b = <<>> THEN a
  ELSE Merged(IF \E i \in 1..Len(a) : a[i].k = b[1].k
                THEN [i \in 1..Len(a) |-> IF a[i].k = b[1].k THEN b[1] ELSE a[i]]
                ELSE Append(a, b[1]),
              Tail(b))

\* Lines 40-57: _resolve, a closure over definitions
RECURSIVE _resolve(_, _)
_resolve(definitions, node) ==
  IF node[1] = "dict"
    THEN LET ref == SGet(node, "$ref")
             target == Target(definitions, RefKey(ref))
         IN  IF IsDefinitionRef(ref)
               THEN IF target[1] = "dict"
                      THEN SDict(Merged(_resolve(definitions, target)[2],
                                        SelectSeq(node[2], LAMBDA it : it.k # "$ref")))
                      ELSE node
               ELSE SDict([i \in 1..Len(node[2]) |->
                             Item(node[2][i].k, _resolve(definitions, node[2][i].v))])
  ELSE IF node[1] = "list"
    THEN SList([i \in 1..Len(node[2]) |-> _resolve(definitions, node[2][i])])
  ELSE node

\* The calls of _resolve nest deeper than MaxDepth, which stands for the
\* recursion limit of the interpreter: the call at that depth raises
\* RecursionError, which nothing in the resolver catches.
RECURSIVE ExceedsRecursionLimit(_, _, _)
ExceedsRecursionLimit(definitions, node, depth) ==
  \/ depth > MaxDepth
  \/ /\ node[1] = "dict"
     /\ IF IsDefinitionRef(SGet(node, "$ref"))
          THEN /\ Target(definitions, RefKey(SGet(node, "$ref")))[1] = "dict"
               /\ ExceedsRecursionLimit(definitions,
                                        Target(definitions, RefKey(SGet(node, "$ref"))), depth + 1)
          ELSE \E i \in 1..Len(node[2]) :
                 ExceedsRecursionLimit(definitions, node[2][i].v, depth + 1)
  \/ /\ node[1] = "list"
     /\ \E i \in 1..Len(node[2]) : ExceedsRecursionLimit(definitions, node[2][i], depth + 1)

RecursionError == Err("RecursionError", "resolve", 0, "", "", "")

\* resolve_dify_schema_refs(schema): the resolved schema or the exception.
\* The values of "$defs" and "definitions" are objects in every schema of
\* the model.
resolve_dify_schema_refs(schema) ==
  IF schema[1] # "dict" THEN Return(schema)
  ELSE IF ExceedsRecursionLimit(SchemaDefinitions(schema), schema, 1) THEN Raise(RecursionError)
  ELSE Return(_resolve(SchemaDefinitions(schema), schema))

(***************************************************************************)
(* impl/base.py: envelope unwrap.                                          *)
(***************************************************************************)
ValueError(tag, code, message) ==
  Err("ValueError", tag, code, message.error_type, message.text, message.shape)

HTTPStatusError(status) == Err("HTTPStatusError", "http_status", status, "", "", "")

\* Result of a transformer: the reshaped JSON or an exception.
Transformed(body) == [ok |-> TRUE, body |-> body]

TransformFailed == [ok |-> FALSE, body |-> NotJson]

\* impl/plugin.py: the transformers the provider fetches pass to
\* _request_with_plugin_daemon_response.
\* tool["identity"]["provider"] = provider_name, for every tool
WithToolProvider(provider, provider_name) ==
  [provider EXCEPT !.declaration.tools =
     [i \in DOMAIN @ |-> [@[i] EXCEPT !.identity.provider = provider_name]]]

\* Lines 378-379 and 412-413: the output schema of a tool, when it has
\* one, is replaced by the resolved one; an exception of the resolver
\* leaves the transformer.
WithResolvedSchemas(provider) ==
  [provider EXCEPT !.declaration.tools =
     [i \in DOMAIN @ |->
        [@[i] EXCEPT !.output_schema =
           IF STruthy(@) THEN resolve_dify_schema_refs(@).val ELSE @]]]

ResolverRaises(provider) ==
  \E i \in DOMAIN provider.declaration.tools :
    /\ STruthy(provider.declaration.tools[i].output_schema)
    /\ resolve_dify_schema_refs(provider.declaration.tools[i].output_schema).st = "raise"

\* The transformer of fetch_tool_providers (lines 371-381): iterating the
\* null data of an envelope raises TypeError, .get on a non-dict raises.
ProvidersTransformer(json_response) ==
  IF json_response.kind = "json_other" \/ json_response.data.null THEN TransformFailed
  ELSE IF json_response.data.present /\ json_response.data.valid
    THEN IF \E i \in DOMAIN json_response.data.value[2] :
              ResolverRaises(json_response.data.value[2][i])
           THEN TransformFailed
           ELSE Transformed([json_response EXCEPT !.data.value =
                  <<"providers",
                    [i \in DOMAIN @[2] |->
                       WithResolvedSchemas(
                         WithToolProvider(@[2][i], @[2][i].declaration.identity.name))]>>])
  ELSE Transformed(json_response)

\* The transformer of fetch_tool_provider (lines 406-415)
ProviderTransformer(provider_name, json_response) ==
  IF json_response.kind = "json_other" THEN TransformFailed
  ELSE IF json_response.data.present /\ json_response.data.valid
    THEN IF ResolverRaises(json_response.data.value[2]) THEN TransformFailed
         ELSE Transformed([json_response EXCEPT !.data.value =
                <<"provider", WithResolvedSchemas(WithToolProvider(@[2], provider_name))>>])
  ELSE Transformed(json_response)

\* PluginDaemonBasicResponse[type_].model_validate (line 219) of data that
\* is valid: ToolEntity has no field output_schema and ignores the key.
ToolEntity(tool) == [tool EXCEPT !.output_schema = SNone]

PluginToolProviderEntity(provider) ==
  [provider EXCEPT !.declaration.tools = [i \in DOMAIN @ |-> ToolEntity(@[i])]]

ModelValidate(body) ==
  IF ~body.data.present THEN body
  ELSE IF body.data.value[1] = "provider"
    THEN [body EXCEPT !.data.value = <<"provider", PluginToolProviderEntity(@[2])>>]
  ELSE IF body.data.value[1] = "providers"
    THEN [body EXCEPT !.data.value =
            <<"providers", [i \in DOMAIN @[2] |-> PluginToolProviderEntity(@[2][i])]>>]
  ELSE body

\* transformer=None, or one of the two closures of impl/plugin.py
NoTransformer == <<"none">>

ProvidersTransformerOf == <<"providers">>

ProviderTransformerOf(provider_name) == <<"provider", provider_name>>

\* `if transformer: json_response = transformer(json_response)`
ApplyTransformer(transformer, json_response) ==
  IF transformer[1] = "providers" THEN ProvidersTransformer(json_response)
  ELSE IF transformer[1] = "provider" THEN ProviderTransformer(transformer[2], json_response)
  ELSE Transformed(json_response)

\* The part of _request_with_plugin_daemon_response after validation:
\* lines 228-239.
UnwrapEnvelopeIgnoringCode(rep) ==
  IF rep.data.present THEN Return(rep.data.value)
  ELSE Raise(ValueError("empty_data", 0, Msg("", "", "")))

UnwrapEnvelope(rep) ==
  IF rep.code # 0
    THEN LET error == ParseDaemonError(rep.message)
         IN  IF ~error.ok
               THEN Raise(ValueError("raw_message_code", rep.code, rep.message))
               ELSE Raise(_handle_plugin_daemon_error(error.error_type, error.message))
  ELSE IF ~rep.data.present
    THEN Raise(ValueError("empty_data", 0, Msg("", "", "")))
  ELSE Return(rep.data.value)

\* BasePluginClient._request_with_plugin_daemon_response
_request_with_plugin_daemon_response(response, transformer) ==
  LET r == _request(response)
  IN  IF r.st = "raise"
        \* PluginDaemonInnerError is no HTTPStatusError: `except Exception`
        THEN Raise(ValueError("request_failed", 0, Msg("", "", "")))
      ELSE IF ~IsSuccess(response.status)
        THEN Raise(HTTPStatusError(response.status))
      ELSE IF response.body.kind = "not_json"
        THEN Raise(ValueError("parse_response", 0, Msg("", "", "")))
      ELSE LET t == ApplyTransformer(transformer, response.body)
           IN  IF ~t.ok \/ ~ValidEnvelope(t.body)
                 THEN Raise(ValueError("parse_response", 0, Msg("", "", "")))
                 ELSE UnwrapEnvelope(ModelValidate(t.body))

\* How the request of a single-shot call went, for the log: "error" is a
\* 2xx response that the call could not unwrap.
Outcome(response, result) ==
  IF ~response.transport_ok THEN "transport_error"
  ELSE IF ~IsSuccess(response.status) THEN "http_status"
  ELSE IF result.st = "raise" THEN "error"
  ELSE "ok"

(***************************************************************************)
(* impl/plugin.py: provider references.  A reference is a Python string,   *)
(* here a sequence of characters.                                          *)
(***************************************************************************)
Chars == {"a", "b", "/"}

RECURSIVE SplitFrom(_, _, _)
\* str.split("/") from position i on, cur being the segment read so far
SplitFrom(s, i, cur) ==
  IF i > Len(s) THEN <<cur>>
  ELSE IF s[i] = "/" THEN <<cur>> \o SplitFrom(s, i + 1, <<>>)
  ELSE SplitFrom(s, i + 1, Append(cur, s[i]))

\* tool_provider.split("/")
Split(s) == SplitFrom(s, 1, <<>>)

RECURSIVE Join(_)
\* "/".join(parts)
Join(parts) ==
  IF Len(parts) = 0 THEN <<>>
  ELSE IF Len(parts) = 1 THEN parts[1]
  ELSE parts[1] \o <<"/">> \o Join(Tail(parts))

InvalidProviderFormat == Err("ValueError", "invalid_provider_format", 0, "", "", "")

\* _parse_tool_provider_id: (plugin_id, provider_name) or ValueError
_parse_tool_provider_id_first(tool_provider) ==
  LET parts == Split(tool_provider)
  IN  IF Len(parts) = 2 THEN Return(<<tool_provider, parts[2]>>)
      ELSE IF Len(parts) = 3 THEN Return(<<parts[1], parts[3]>>)
      ELSE Raise(InvalidProviderFormat)

_parse_tool_provider_id(tool_provider) ==
  LET parts == Split(tool_provider)
  IN  IF Len(parts) = 2 THEN Return(<<tool_provider, parts[2]>>)
      ELSE IF Len(parts) = 3 THEN Return(<<Join(SubSeq(parts, 1, 2)), parts[3]>>)
      ELSE Raise(InvalidProviderFormat)

(***************************************************************************)
(* Python values of tool parameters: None, str (a sequence of characters), *)
(* int, float (<<n, k>> is n / 10^k, k least), bool and list, each a pair   *)
(* of its type and its payload.                                            *)
(***************************************************************************)
PyNone == <<"none", <<>>>>

PyStr(s) == <<"str", s>>

PyInt(n) == <<"int", n>>

PyBool(b) == <<"bool", b>>

PyList(l) == <<"list", l>>

\* The type tag and the payload of a value
PyT(value) == value[1]

PyV(value) == value[2]

RECURSIVE NormFloat(_, _)
NormFloat(n, k) == IF k > 0 /\ n % 10 = 0 THEN NormFloat(n \div 10, k - 1) ELSE <<n, k>>

PyFloat(n, k) == <<"float", NormFloat(n, k)>>

DigitChars == <<"0", "1", "2", "3", "4", "5", "6", "7", "8", "9">>

UpperChars == <<"A", "B", "C", "D", "E", "F", "G", "H", "I", "J", "K", "L", "M",
                "N", "O", "P", "Q", "R", "S", "T", "U", "V", "W", "X", "Y", "Z">>

LowerChars == <<"a", "b", "c", "d", "e", "f", "g", "h", "i", "j", "k", "l", "m",
                "n", "o", "p", "q", "r", "s", "t", "u", "v", "w", "x", "y", "z">>

Range(f) == {f[i] : i \in DOMAIN f}

IndexOf(seq, c) == CHOOSE i \in DOMAIN seq : seq[i] = c

\* str.lower()
Lower(s) ==
  [i \in 1..Len(s) |-> IF s[i] \in Range(UpperChars)
                         THEN LowerChars[IndexOf(UpperChars, s[i])] ELSE s[i]]

RECURSIVE LStrip(_)
LStrip(s) == IF Len(s) > 0 /\ s[1] = " " THEN LStrip(Tail(s)) ELSE s

RECURSIVE RStrip(_)
RStrip(s) ==
  IF Len(s) > 0 /\ s[Len(s)] = " " THEN RStrip(SubSeq(s, 1, Len(s) - 1)) ELSE s

\* str.strip()
Strip(s) == RStrip(LStrip(s))

IsDigits(s) == Len(s) > 0 /\ \A i \in 1..Len(s) : s[i] \in Range(DigitChars)

RECURSIVE DigitsValue(_)
DigitsValue(s) ==
  IF Len(s) = 0 THEN 0
  ELSE 10 * DigitsValue(SubSeq(s, 1, Len(s) - 1)) + (IndexOf(DigitChars, s[Len(s)]) - 1)

RECURSIVE Pow10(_)
Pow10(k) == IF k = 0 THEN 1 ELSE 10 * Pow10(k - 1)

Signed(s) == Len(s) > 0 /\ s[1] \in {"+", "-"}

Unsigned(s) == IF Signed(s) THEN Tail(s) ELSE s

SignOf(s) == IF Len(s) > 0 /\ s[1] = "-" THEN -1 ELSE 1

ParseFailed == [ok |-> FALSE, value |-> PyNone]

\* int(value) of a str: surrounding blanks, an optional sign, decimal digits
\* (digit-group underscores are not modelled).
ParseInt(s) ==
  LET u == Strip(s)
  IN  IF IsDigits(Unsigned(u))
        THEN [ok |-> TRUE, value |-> PyInt(SignOf(u) * DigitsValue(Unsigned(u)))]
        ELSE ParseFailed

\* float(value) of a str that contains ".": digits on at least one side of
\* one "." (exponents, inf and nan are not modelled).
ParseFloat(s) ==
  LET u == Unsigned(Strip(s))
      dots == {i \in 1..Len(u) : u[i] = "."}
  IN  IF Cardinality(dots) # 1 THEN ParseFailed
      ELSE LET d == CHOOSE i \in dots : TRUE
               ip == SubSeq(u, 1, d - 1)
               fp == SubSeq(u, d + 1, Len(u))
           IN  IF (Len(ip) = 0 \/ IsDigits(ip)) /\ (Len(fp) = 0 \/ IsDigits(fp))
                  /\ Len(ip) + Len(fp) > 0
                 THEN [ok |-> TRUE,
                       value |-> PyFloat(SignOf(Strip(s))
                                   * (DigitsValue(ip) * Pow10(Len(fp)) + DigitsValue(fp)),
                                   Len(fp))]
                 ELSE ParseFailed

RECURSIVE IntText(_)
IntText(n) ==
  IF n < 0 THEN <<"-">> \o IntText(-n)
  ELSE IF n < 10 THEN <<DigitChars[n + 1]>>
  ELSE IntText(n \div 10) \o <<DigitChars[(n % 10) + 1]>>

RECURSIVE PadLeft(_, _)
PadLeft(s, k) == IF Len(s) >= k THEN s ELSE PadLeft(<<"0">> \o s, k)

Abs(n) == IF n < 0 THEN -n ELSE n

\* str(value) of a float of moderate size: always with a fractional part
FloatText(n, k) ==
  (IF n < 0 THEN <<"-">> ELSE <<>>) \o IntText(Abs(n) \div Pow10(k)) \o <<".">>
    \o (IF k = 0 THEN <<"0">> ELSE PadLeft(IntText(Abs(n) % Pow10(k)), k))

RECURSIVE PyRepr(_, _)
\* str(value) when top is TRUE and repr(value) when it is FALSE
PyRepr(value, top) ==
  CASE PyT(value) = "str" -> IF top THEN PyV(value) ELSE <<"'">> \o PyV(value) \o <<"'">>
    [] PyT(value) = "int" -> IntText(PyV(value))
    [] PyT(value) = "float" -> FloatText(PyV(value)[1], PyV(value)[2])
    [] PyT(value) = "bool" -> IF PyV(value) THEN <<"T", "r", "u", "e">> ELSE <<"F", "a", "l", "s", "e">>
    [] PyT(value) = "none" -> <<"N", "o", "n", "e">>
    [] PyT(value) = "list" ->
         <<"[">> \o
         (IF Len(PyV(value)) = 0 THEN <<>>
          ELSE PyRepr(PyV(value)[1], FALSE) \o
               (IF Len(PyV(value)) = 1 THEN <<>>
                ELSE <<",", " ">> \o
                     SubSeq(PyRepr(PyList(Tail(PyV(value))), FALSE), 2,
                            Len(PyRepr(PyList(Tail(PyV(value))), FALSE)) - 1)))
         \o <<"]">>

\* str(value)
PyStrOf(value) == PyRepr(value, TRUE)

IsNumeric(value) == PyT(value) \in {"int", "float", "bool"}

\* A number as <<n, k>>, n / 10^k: bool is an int in Python
NumberOf(value) ==
  CASE PyT(value) = "int" -> <<PyV(value), 0>>
    [] PyT(value) = "bool" -> <<IF PyV(value) THEN 1 ELSE 0, 0>>
    [] PyT(value) = "float" -> PyV(value)

RECURSIVE PyEq(_, _)
\* a == b
PyEq(a, b) ==
  IF IsNumeric(a) /\ IsNumeric(b) THEN NumberOf(a) = NumberOf(b)
  ELSE IF PyT(a) # PyT(b) THEN FALSE
  ELSE IF PyT(a) = "list"
    THEN Len(PyV(a)) = Len(PyV(b)) /\ \A i \in 1..Len(PyV(a)) : PyEq(PyV(a)[i], PyV(b)[i])
  ELSE PyV(a) = PyV(b)

\* value in options
PyIn(value, options) == \E i \in 1..Len(options) : PyEq(value, options[i])

\* bool(value)
Truthy(value) ==
  CASE PyT(value) = "none" -> FALSE
    [] PyT(value) = "bool" -> PyV(value)
    [] PyT(value) = "int" -> PyV(value) # 0
    [] PyT(value) = "float" -> PyV(value)[1] # 0
    [] PyT(value) \in {"str", "list"} -> Len(PyV(value)) > 0

(***************************************************************************)
(* entities/tools.py: ToolParameter, and the cast of one raw value to the  *)
(* declared type.                                                          *)
(***************************************************************************)
ToolParameterTypes ==
  {"string", "text-input", "number", "boolean", "select", "dynamic-select",
   "app-selector", "model-selector", "array[tools]", "any", "object", "checkbox",
   "secret-input", "file", "files", "array"}

\* options is None or a list: <<>> stands for both, as the code tests its truth
ToolParameter(name, type, required, options) ==
  [name |-> name, type |-> type, required |-> required, options |-> options]

CastError(tag) == Err("ValueError", tag, 0, "", "", "")

TrueWords == {<<"t", "r", "u", "e">>, <<"y", "e", "s">>, <<"y">>, <<"1">>}

FalseWords == {<<"f", "a", "l", "s", "e">>, <<"n", "o">>, <<"n">>, <<"0">>}

CastStringMissingIsEmpty(param, value) ==
  IF value = PyNone THEN Return(PyStr(<<>>))
  ELSE Return(IF PyT(value) = "str" THEN value ELSE PyStr(PyStrOf(value)))

\* The string / secret-input case and the tail of the select case
CastString(param, value) ==
  IF value = PyNone
    THEN IF param.required THEN Raise(CastError("required")) ELSE Return(PyStr(<<>>))
  ELSE Return(IF PyT(value) = "str" THEN value ELSE PyStr(PyStrOf(value)))

\* The select case (lines 528-537): the raw value is looked up in options
CastSelect(param, value) ==
  IF value # PyNone /\ Len(param.options) > 0 /\ ~PyIn(value, param.options)
    THEN Raise(CastError("not in options"))
    ELSE CastString(param, value)

CastBooleanCaseSensitive(value) ==
  IF value = PyNone THEN Return(PyBool(FALSE))
  ELSE IF PyT(value) = "str" /\ PyV(value) \in TrueWords THEN Return(PyBool(TRUE))
  ELSE IF PyT(value) = "str" /\ PyV(value) \in FalseWords THEN Return(PyBool(FALSE))
  ELSE Return(PyBool(Truthy(value)))

\* The boolean case (lines 538-547)
CastBoolean(value) ==
  IF value = PyNone THEN Return(PyBool(FALSE))
  ELSE IF PyT(value) = "str" /\ Lower(PyV(value)) \in TrueWords
    THEN Return(PyBool(TRUE))
  ELSE IF PyT(value) = "str" /\ Lower(PyV(value)) \in FalseWords
    THEN Return(PyBool(FALSE))
  ELSE Return(PyBool(Truthy(value)))

CastNumberAlwaysInt(value) ==
  IF value = PyNone THEN Return(PyInt(0))
  ELSE IF IsNumeric(value) THEN Return(value)
  ELSE IF PyT(value) = "str" /\ Len(PyV(value)) > 0 /\ ParseInt(PyV(value)).ok
    THEN Return(ParseInt(PyV(value)).value)
  ELSE Raise(CastError("expects a number"))

\* The number case (lines 548-558)
CastNumber(value) ==
  IF value = PyNone THEN Return(PyInt(0))
  ELSE IF IsNumeric(value) THEN Return(value)
  ELSE IF PyT(value) = "str" /\ Len(PyV(value)) > 0
    THEN LET parsed == IF "." \in Range(PyV(value)) THEN ParseFloat(PyV(value))
                       ELSE ParseInt(PyV(value))
         IN  IF parsed.ok THEN Return(parsed.value)
             ELSE Raise(CastError("expects a number"))
  ELSE Raise(CastError("expects a number"))

\* The file case (lines 559-564)
CastFile(value) ==
  IF PyT(value) = "list"
    THEN IF Len(PyV(value)) # 1 THEN Raise(CastError("only accepts one file"))
         ELSE Return(PyV(value)[1])
    ELSE Return(value)

CastListAlwaysWraps(value) ==
  IF value = PyNone THEN Return(PyList(<<>>)) ELSE Return(PyList(<<value>>))

\* The files / array case (lines 565-568)
CastList(value) ==
  IF value = PyNone THEN Return(PyList(<<>>))
  ELSE Return(IF PyT(value) = "list" THEN value ELSE PyList(<<value>>))

\* DifyPluginClient._cast_tool_parameter_value
_cast_tool_parameter_value(param, value) ==
  CASE param.type \in {"string", "secret-input"} -> CastString(param, value)
    [] param.type = "select" -> CastSelect(param, value)
    [] param.type = "boolean" -> CastBoolean(value)
    [] param.type = "number" -> CastNumber(value)
    [] param.type = "file" -> CastFile(value)
    [] param.type \in {"files", "array"} -> CastList(value)
    [] OTHER -> Return(value)

(***************************************************************************)
(* Stream state of a call: none for the operations that do not stream.     *)
(***************************************************************************)
NoStream == [phase |-> "none", conn |-> "none", status |-> 0, args |-> NoVal, read |-> <<>>,
             yielded |-> <<>>, pulls |-> 0, last |-> NoOutcome]

\* The caller is about to issue a call on the client.
Idle == call.op = "none"

\* A call that issued one single-shot request and finished.
SingleShot(c, request, response, result, final) ==
  /\ call' = c
  /\ reqLog' = <<Logged(request, Outcome(response, result))>>
  /\ resp' = response
  /\ unwrapped' = result
  /\ ret' = final
  /\ stream' = NoStream
  /\ UNCHANGED self

\* A call that failed before issuing any request.
Rejected(c, e) ==
  /\ call' = c
  /\ reqLog' = <<>>
  /\ resp' = NoResp
  /\ unwrapped' = NoOutcome
  /\ ret' = Raise(e)
  /\ stream' = NoStream
  /\ UNCHANGED self

(***************************************************************************)
(* impl/plugin.py: operations that return the unwrapped data as it is.     *)
(***************************************************************************)
InstallationIds == {"inst1"}

\* DifyPluginClient.uninstall
UninstallRequest(plugin_installation_id) ==
  PreparedRequest("single", "POST",
                  <<"plugin", TenantId, "management", "uninstall">>, JsonHeaders,
                  DictData([plugin_installation_id |-> plugin_installation_id]),
                  NoHeaders)

uninstall(plugin_installation_id) ==
  \E response \in Responses({Bool(TRUE), Bool(FALSE)}) :
    LET request == UninstallRequest(plugin_installation_id)
        result == _request_with_plugin_daemon_response(response, NoTransformer)
    IN  SingleShot([op |-> "uninstall", arg |-> plugin_installation_id],
                   request, response, result, result)

Uninstall == Idle /\ \E id \in InstallationIds : uninstall(id)

\* The readmes the daemon may hold: PluginReadmeResponse(content, language)
Readmes == {<<"readme", "hello">>, <<"readme", "">>}

\* Lines 89-103: response.content, or "" for the HTTPStatusError of a 404
ReadmeResultAnyStatus(result) ==
  IF result.st = "return" THEN Return(<<"str", result.val[2]>>)
  ELSE IF result.err.kind = "HTTPStatusError" THEN Return(<<"str", "">>)
  ELSE result

ReadmeResult(result) ==
  IF result.st = "return" THEN Return(<<"str", result.val[2]>>)
  ELSE IF result.err.kind = "HTTPStatusError" /\ result.err.code = 404
    THEN Return(<<"str", "">>)
  ELSE result

ReadmeRequest(plugin_unique_identifier, language) ==
  PreparedRequest("single", "GET",
                  <<"plugin", TenantId, "management", "fetch", "readme">>, NoHeaders, NoData,
                  [tenant_id |-> TenantId,
                   plugin_unique_identifier |-> plugin_unique_identifier,
                   language |-> language])

\* DifyPluginClient.fetch_plugin_readme
fetch_plugin_readme(plugin_unique_identifier, language) ==
  \E response \in Responses(Readmes) :
    LET request == ReadmeRequest(plugin_unique_identifier, language)
        result == _request_with_plugin_daemon_response(response, NoTransformer)
    IN  SingleShot([op |-> "fetch_plugin_readme", arg |-> plugin_unique_identifier],
                   request, response, result, ReadmeResult(result))

FetchPluginReadme == Idle /\ fetch_plugin_readme("plugin1", "en_US")

(***************************************************************************)
(* DifyPluginClient.install_from_identifiers                               *)
(***************************************************************************)
\* The entries a caller may put in metas, as Python values: two dicts and
\* two values that are no dict.
MetaValues ==
  {[type |-> "dict", value |-> "{}"], [type |-> "dict", value |-> "{k: v}"],
   [type |-> "str", value |-> "x"], [type |-> "none", value |-> ""]}

Identifiers == {"id1", "id2"}

SeqsUpTo(S, n) == UNION {[1..k -> S] : k \in 0..n}

\* PluginInstallTaskStartResponse values
TaskStarts == {<<"task", [task_id |-> "task1", all_installed |-> FALSE]>>}

ValidationError(tag) == Err("ValueError", tag, 0, "", "", "")

\* The checks of lines 186-191: the error raised, or NoErr when all pass.
InstallArgumentErrorNoLength(identifiers, metas) ==
  IF Len(identifiers) = 0 THEN ValidationError("identifiers must be provided")
  ELSE IF ~(\A i \in 1..Len(metas) : metas[i].type = "dict")
    THEN ValidationError("metas must be a list of dictionaries")
  ELSE NoErr

InstallArgumentError(identifiers, metas) ==
  IF Len(identifiers) = 0 THEN ValidationError("identifiers must be provided")
  ELSE IF Len(metas) # Len(identifiers)
    THEN ValidationError("metas length must match identifiers")
  ELSE IF ~(\A i \in 1..Len(metas) : metas[i].type = "dict")
    THEN ValidationError("metas must be a list of dictionaries")
  ELSE NoErr

install_from_identifiers(identifiers, source, metas) ==
  LET c == [op |-> "install_from_identifiers", identifiers |-> identifiers,
            source |-> source, metas |-> metas]
      e == InstallArgumentError(identifiers, metas)
  IN  IF e # NoErr THEN Rejected(c, e)
      ELSE \E response \in Responses(TaskStarts) :
        LET request == PreparedRequest("single", "POST",
                         <<"plugin", TenantId, "management", "install", "identifiers">>,
                         JsonHeaders,
                         DictData([plugin_unique_identifiers |-> identifiers,
                                   source |-> source, metas |-> metas]),
                         NoHeaders)
            result == _request_with_plugin_daemon_response(response, NoTransformer)
        IN  SingleShot(c, request, response, result, result)

InstallFromIdentifiers ==
  /\ Idle
  /\ \E identifiers \in SeqsUpTo(Identifiers, MaxMetas), metas \in SeqsUpTo(MetaValues, MaxMetas) :
       install_from_identifiers(identifiers, "marketplace", metas)

(***************************************************************************)
(* DifyPluginClient.fetch_tool_providers / fetch_tool_provider             *)
(***************************************************************************)
\* A tool as the daemon sends it: identity.provider is overwritten below.
Tool(name, provider, parameters) ==
  [identity |-> [name |-> name, provider |-> provider], parameters |-> parameters,
   output_schema |-> SNone]

\* A tool that declares an output schema
ToolWithSchema(tool, output_schema) == [tool EXCEPT !.output_schema = output_schema]

\* An output schema with a reference that resolves and one that does not,
\* and one whose definition refers to itself
OutputSchema ==
  SDict(<<Item("$defs", SDict(<<Item("A", SDict(<<Item("type", SStr(<<"string">>))>>))>>)),
          Item("properties",
               SDict(<<Item("x", SDict(<<Item("$ref", SStr(<<"#", "$defs", "A">>))>>)),
                       Item("y", SDict(<<Item("$ref", SStr(<<"#", "$defs", "M">>))>>))>>))>>)

CyclicOutputSchema ==
  SDict(<<Item("$defs", SDict(<<Item("A", SDict(<<Item("$ref", SStr(<<"#", "$defs", "A">>))>>))>>)),
          Item("$ref", SStr(<<"#", "$defs", "A">>))>>)

\* A PluginToolProviderEntity: plugin_id and the declaration
Provider(plugin_id, name, tools) ==
  [plugin_id |-> plugin_id, declaration |-> [identity |-> [name |-> name], tools |-> tools]]

\* Lines 392-396 and 425-429: the display name becomes plugin_id/name and
\* every tool refers to it.
RenamedUnprefixed(provider) ==
  WithToolProvider(
    [provider EXCEPT !.declaration.identity.name = provider.plugin_id \o <<"/">> \o @],
    provider.declaration.identity.name)

Renamed(provider) ==
  LET name == provider.plugin_id \o <<"/">> \o provider.declaration.identity.name
  IN  WithToolProvider([provider EXCEPT !.declaration.identity.name = name], name)

\* What fetch_tool_providers makes of the daemon's response
FetchToolProvidersResult(response) ==
  LET result == _request_with_plugin_daemon_response(response, ProvidersTransformerOf)
  IN  IF result.st = "return"
        THEN Return(<<"providers", [i \in DOMAIN result.val[2] |-> Renamed(result.val[2][i])]>>)
        ELSE result

\* What fetch_tool_provider makes of it, provider_name being the parsed name
FetchToolProviderResult(provider_name, response) ==
  LET transformer == ProviderTransformerOf(provider_name)
      result == _request_with_plugin_daemon_response(response, transformer)
  IN  IF result.st = "return" THEN Return(<<"provider", Renamed(result.val[2])>>)
      ELSE result

\* Declarations the daemon may hold
ToolLists ==
  {<<>>, <<ToolWithSchema(Tool(<<"t">>, <<"z">>, <<>>), OutputSchema), Tool(<<"u">>, <<"a">>, <<>>)>>}

\* A provider whose tool declares the cyclic schema
CyclicProvider ==
  Provider(<<"p">>, <<"a">>, <<ToolWithSchema(Tool(<<"t">>, <<"z">>, <<>>), CyclicOutputSchema)>>)

Providers ==
  {Provider(id, name, tools) : id \in {<<"o", "/", "p">>, <<"p">>},
                               name \in {<<"a">>, <<"b">>}, tools \in ToolLists}

MaxProviders == 2

ProviderLists ==
  {<<"providers", l>> : l \in SeqsUpTo(Providers, MaxProviders)}
  \cup {<<"providers", <<CyclicProvider>>>>}

fetch_tool_providers ==
  \E response \in Responses(ProviderLists) :
    LET request == PreparedRequest("single", "GET",
                     <<"plugin", TenantId, "management", "tools">>, NoHeaders, NoData,
                     [page |-> 1, page_size |-> 256])
    IN  SingleShot([op |-> "fetch_tool_providers"], request, response,
                   _request_with_plugin_daemon_response(response, ProvidersTransformerOf),
                   FetchToolProvidersResult(response))

FetchToolProviders == Idle /\ fetch_tool_providers

ProviderRefs == {<<"p", "/", "a">>, <<"o", "/", "p", "/", "a">>, <<"a">>, <<"o", "/", "p", "/", "a", "/", "b">>}

fetch_tool_provider(provider) ==
  LET c == [op |-> "fetch_tool_provider", provider |-> provider]
      parsed == _parse_tool_provider_id(provider)
  IN  IF parsed.st = "raise" THEN Rejected(c, parsed.err)
      ELSE \E response \in Responses({<<"provider", p>> : p \in Providers \cup {CyclicProvider}}) :
        LET plugin_id == parsed.val[1]
            provider_name == parsed.val[2]
            transformer == ProviderTransformerOf(provider_name)
            request == PreparedRequest("single", "GET",
                         <<"plugin", TenantId, "management", "tool">>, NoHeaders, NoData,
                         [provider |-> provider_name, plugin_id |-> plugin_id])
        IN  SingleShot(c, request, response, _request_with_plugin_daemon_response(response, transformer),
                       FetchToolProviderResult(provider_name, response))

FetchToolProvider == Idle /\ \E provider \in ProviderRefs : fetch_tool_provider(provider)

(***************************************************************************)
(* DifyPluginClient._normalize_tool_parameters.  A dict is the sequence of *)
(* its items in insertion order.                                           *)
(***************************************************************************)
HasKey(d, k) == \E i \in 1..Len(d) : d[i].k = k

\* d.get(k)
DictGet(d, k) == IF HasKey(d, k) THEN d[CHOOSE i \in 1..Len(d) : d[i].k = k].v ELSE PyNone

\* d[k] = v
DictSet(d, k, v) ==
  IF HasKey(d, k) THEN [i \in 1..Len(d) |-> IF d[i].k = k THEN Item(k, v) ELSE d[i]]
  ELSE Append(d, Item(k, v))

RECURSIVE CastAll(_, _, _)
\* The loop of lines 498-500: the first failing cast ends it.
CastAll(parameters, tool_parameters, normalized) ==
  IF Len(parameters) = 0 THEN Return(normalized)
  ELSE LET param == Head(parameters)
           cast == _cast_tool_parameter_value(param, DictGet(tool_parameters, param.name))
       IN  IF cast.st = "raise" THEN cast
           ELSE CastAll(Tail(parameters), tool_parameters,
                        DictSet(normalized, param.name, cast.val))

RECURSIVE WithExtrasOverwriting(_, _)
WithExtrasOverwriting(tool_parameters, normalized) ==
  IF Len(tool_parameters) = 0 THEN normalized
  ELSE WithExtrasOverwriting(Tail(tool_parameters),
                             DictSet(normalized, Head(tool_parameters).k,
                                     Head(tool_parameters).v))

RECURSIVE WithExtras(_, _)
\* The loop of lines 503-505
WithExtras(tool_parameters, normalized) ==
  IF Len(tool_parameters) = 0 THEN normalized
  ELSE WithExtras(Tail(tool_parameters),
                  IF HasKey(normalized, Head(tool_parameters).k) THEN normalized
                  ELSE Append(normalized, Head(tool_parameters)))

ToolNotFound == Err("ValueError", "tool not found", 0, "", "", "")

\* _normalize_tool_parameters, given the outcome of its fetch_tool_provider
_normalize_tool_parameters_lenient(provider, tool_name, tool_parameters) ==
  IF provider.st = "raise" THEN Return(tool_parameters)
  ELSE LET tools == provider.val[2].declaration.tools
           found == {i \in 1..Len(tools) : tools[i].identity.name = tool_name}
       IN  IF found = {} THEN Raise(ToolNotFound)
           ELSE LET tool == tools[CHOOSE i \in found : \A j \in found : i <= j]
                    cast == CastAll(tool.parameters, tool_parameters, <<>>)
                IN  IF cast.st = "raise" THEN cast
                    ELSE Return(WithExtras(tool_parameters, cast.val))

_normalize_tool_parameters_raw(provider, tool_name, tool_parameters) ==
  IF provider.st = "raise" THEN provider
  ELSE LET tools == provider.val[2].declaration.tools
           found == {i \in 1..Len(tools) : tools[i].identity.name = tool_name}
       IN  IF found = {} THEN Raise(ToolNotFound)
           ELSE LET tool == tools[CHOOSE i \in found : \A j \in found : i <= j]
                    cast == CastAll(tool.parameters, tool_parameters, <<>>)
                IN  IF cast.st = "raise" THEN cast
                    ELSE Return(tool_parameters)

_normalize_tool_parameters(provider, tool_name, tool_parameters) ==
  IF provider.st = "raise" THEN provider
  ELSE LET tools == provider.val[2].declaration.tools
           found == {i \in 1..Len(tools) : tools[i].identity.name = tool_name}
       IN  IF found = {} THEN Raise(ToolNotFound)
           ELSE LET tool == tools[CHOOSE i \in found : \A j \in found : i <= j]
                    cast == CastAll(tool.parameters, tool_parameters, <<>>)
                IN  IF cast.st = "raise" THEN cast
                    ELSE Return(WithExtras(tool_parameters, cast.val))

(***************************************************************************)
(* impl/base.py: the stream.  A raw body line is a sequence of tokens:     *)
(* blanks, the prefix "data:" and texts; a text stands for a JSON document *)
(* or other text that holds no blank and does not start with "data:".      *)
(***************************************************************************)
Ws == [tok |-> "ws", p |-> NotJson]

DataPrefix == [tok |-> "data:", p |-> NotJson]

Text(body) == [tok |-> "text", p |-> body]

RECURSIVE LStripTokens(_)
LStripTokens(line) ==
  IF Len(line) > 0 /\ line[1].tok = "ws" THEN LStripTokens(Tail(line)) ELSE line

RECURSIVE RStripTokens(_)
RStripTokens(line) ==
  IF Len(line) > 0 /\ line[Len(line)].tok = "ws"
    THEN RStripTokens(SubSeq(line, 1, Len(line) - 1)) ELSE line

\* line.strip()
StripTokens(line) == RStripTokens(LStripTokens(line))

\* Lines 135-142 of _stream_request: what is yielded for a raw line, <<>>
\* when the line is skipped.
FramedOnceStripped(raw_line) ==
  LET line == StripTokens(raw_line)
  IN  IF Len(line) > 0 /\ line[1].tok = "data:" THEN Tail(line) ELSE line

Framed(raw_line) ==
  LET line == StripTokens(raw_line)
  IN  IF Len(line) > 0 /\ line[1].tok = "data:" THEN StripTokens(Tail(line)) ELSE line

\* What the JSON parser makes of a yielded line
LineBody(line) == IF Len(line) = 1 /\ line[1].tok = "text" THEN line[1].p ELSE NotJson

\* The raw message in an error: PluginDaemonInnerError(code, rep.message)
InnerErrorRaw(code, message) ==
  Err("PluginDaemonInnerError", "inner", code, message.error_type, message.text, message.shape)

\* Lines 264-273: the error raised for an envelope with code != 0.  Every
\* exception of the dispatch but PluginDaemonInnerError is caught by
\* `except Exception`, as is the failure to parse the message.
StreamErrorAlwaysGeneric(rep) ==
  LET error == ParseDaemonError(rep.message)
      dispatched == _handle_plugin_daemon_error(error.error_type, error.message)
  IN  IF error.ok /\ dispatched.kind = "PluginDaemonInnerError" THEN dispatched
      ELSE ValueError("stream_message_code", rep.code, rep.message)

StreamError(rep) ==
  LET error == ParseDaemonError(rep.message)
      dispatched == _handle_plugin_daemon_error(error.error_type, error.message)
  IN  IF error.ok /\ dispatched.kind = "PluginDaemonInnerError" THEN dispatched
      ELSE IF rep.code = -500 THEN InnerErrorRaw(rep.code, rep.message)
      ELSE ValueError("stream_message_code", rep.code, rep.message)

\* Lines 255-277: one line of the stream: the item yielded or the error
DecodedIgnoringCode(line) ==
  IF ValidEnvelope(LineBody(line)) /\ LineBody(line).data.present
    THEN Return(LineBody(line).data.value)
    ELSE Raise(ValueError("stream_line", 0, Msg("", "", "")))

Decoded(line) ==
  LET body == LineBody(line)
  IN  IF ~ValidEnvelope(body)
        THEN IF body.kind = "not_json" THEN Raise(ValueError("stream_line", 0, Msg("", "", "")))
             ELSE IF body.kind = "json_other"
               THEN Raise(Err("AttributeError", "get", 0, "", "", ""))
             ELSE IF body.has_error
               THEN Raise(ValueError("stream_error_field", 0, Msg("", "", "")))
             ELSE Raise(ValueError("stream_line", 0, Msg("", "", "")))
      ELSE IF body.code # 0 THEN Raise(StreamError(body))
      ELSE IF ~body.data.present THEN Raise(ValueError("empty_data", 0, Msg("", "", "")))
      ELSE Return(body.data.value)

(***************************************************************************)
(* DifyPluginClient.invoke and the consumption of the generator it returns *)
(***************************************************************************)
\* Declarations of the provider invoked: one tool "t"
InvokeParams ==
  {<<>>,
   <<ToolParameter(<<"q">>, "number", FALSE, <<>>)>>,
   <<ToolParameter(<<"q">>, "string", TRUE, <<>>)>>}

InvokeProviders ==
  {Provider(<<"o", "/", "p">>, <<"a">>, <<Tool(<<"t">>, <<"z">>, params)>>) :
     params \in InvokeParams}

ToolNames == {<<"t">>, <<"u">>}

\* tool_parameters the caller may pass
RawParameters ==
  {<<>>,
   <<Item(<<"x">>, PyInt(7)), Item(<<"q">>, PyStr(<<"3">>))>>,
   <<Item(<<"q">>, PyStr(<<"a", "b", "c">>))>>}

\* The responses to the provider fetch of an invoke
InvokeFetchResponses ==
  {TransportFailure, Response(TRUE, 500, NotJson), Response(TRUE, 200, NotJson)} \cup
  {Response(TRUE, 200, b) :
     b \in EnvelopesWith({OkMsg, Msg("structured", "PluginNotFoundError", "m1")},
                         {Null} \cup {Data(<<"provider", p>>) : p \in InvokeProviders})}

\* The arguments bound when the generator is created (lines 455-472)
StreamArgs(plugin_id, provider_name, user_id, tool_name, credentials, normalized) ==
  [method |-> "POST",
   path |-> <<"plugin", TenantId, "dispatch", "tool", "invoke">>,
   headers |-> [n \in {"X-Plugin-ID", "Content-Type"} |->
                  IF n = "X-Plugin-ID" THEN plugin_id ELSE "application/json"],
   data |-> DictData([user_id |-> user_id,
                      data |-> [provider |-> provider_name, tool |-> tool_name,
                                credentials |-> credentials,
                                tool_parameters |-> normalized]])]

invoke(user_id, tool_provider, tool_name, credentials, tool_parameters) ==
  LET c == [op |-> "invoke", tool_provider |-> tool_provider, tool_name |-> tool_name,
            tool_parameters |-> tool_parameters]
      parsed == _parse_tool_provider_id(tool_provider)
  IN  IF parsed.st = "raise" THEN Rejected(c, parsed.err)
      ELSE \E response \in InvokeFetchResponses :
        LET plugin_id == parsed.val[1]
            provider_name == parsed.val[2]
            transformer == ProviderTransformerOf(provider_name)
            request == PreparedRequest("single", "GET",
                         <<"plugin", TenantId, "management", "tool">>, NoHeaders, NoData,
                         [provider |-> provider_name, plugin_id |-> plugin_id])
            provider == FetchToolProviderResult(provider_name, response)
            normalized == _normalize_tool_parameters(provider, tool_name, tool_parameters)
        IN  /\ call' = c
            /\ reqLog' = <<Logged(request, Outcome(response, provider))>>
            /\ resp' = response
            /\ unwrapped' = _request_with_plugin_daemon_response(response, transformer)
            /\ UNCHANGED self
            /\ IF normalized.st = "raise"
                 THEN /\ ret' = normalized
                      /\ stream' = NoStream
                 ELSE /\ ret' = Return(<<"generator">>)
                      /\ stream' = [NoStream EXCEPT
                           !.phase = "created",
                           !.args = StreamArgs(plugin_id, provider_name, user_id, tool_name,
                                               credentials, normalized.val)]

Invoke ==
  /\ Idle
  /\ \E tool_provider \in ProviderRefs, tool_name \in ToolNames,
        tool_parameters \in RawParameters :
       invoke("user1", tool_provider, tool_name, "creds", tool_parameters)

\* The items a tool may stream
Items == {<<"text", "hi">>, <<"text", "bye">>}

\* Error types a stream line may name: the type the stream re-raises, two
\* it does not, one the dispatcher does not know, and none.
StreamErrorTypes ==
  {"PluginDaemonInnerError", "PluginInvokeError", "PluginNotFoundError", "PluginFutureError", ""}

StreamMessages ==
  {Msg("structured", et, "m1") : et \in StreamErrorTypes} \cup
  {Msg("plain", "", "m1"), Msg("json_other", "", "m1")}

StreamBodies ==
  {Envelope(0, OkMsg, d) : d \in DataChoices(Items)} \cup
  {Envelope(c, m, d) : c \in Codes \ {0}, m \in StreamMessages,
                       d \in {Null, Data(<<"text", "hi">>)}} \cup
  {NotJson, Body("json_other", 0, OkMsg, Absent, FALSE),
   Body("json_object", 0, OkMsg, Absent, FALSE), Body("json_object", 0, OkMsg, Absent, TRUE)}

\* Raw lines that carry a text, and raw lines that are skipped
TextLines ==
  {<<Text(b)>> : b \in StreamBodies} \cup
  {<<DataPrefix, Ws, Text(b)>> :
     b \in {Envelope(0, OkMsg, Data(<<"text", "hi">>)), NotJson}} \cup
  {<<DataPrefix, DataPrefix, Text(Envelope(0, OkMsg, Data(<<"text", "hi">>)))>>}

BlankLines == {<<>>, <<DataPrefix, Ws>>}

NonBlank(lines) == SelectSeq(lines, LAMBDA l : Framed(l) # <<>>)

Blank(lines) == SelectSeq(lines, LAMBDA l : Framed(l) = <<>>)

StreamRequest ==
  PreparedRequest("stream", stream.args.method, stream.args.path, stream.args.headers,
                  stream.args.data, NoHeaders)

\* response.raise_for_status() of line 133, before the loop over the lines
RaiseForStatusNever(status) == FALSE

RaiseForStatus(status) == ~IsSuccess(status)

\* `with httpx.stream(...) as response:` (line 131): what the connection is
\* once the block is left, by its end, by an exception passing through it or
\* by GeneratorExit thrown at `yield line` when the generator is closed.  A
\* decode error is raised in the outer generator while the inner one is
\* suspended at its yield: unwinding the outer frame drops the loop's
\* iterator, the only reference to the inner generator, which closes it.
ConnAfterWithLeaked == "open"

ConnAfterWith == "closed"

\* The stream ended with an exception raised to the consumer
StreamRaised(e, conn, status, lines, outcome) ==
  /\ stream' = [stream EXCEPT !.phase = "raised", !.conn = conn, !.status = status,
                              !.pulls = @ + 1, !.read = @ \o lines, !.last = Raise(e)]
  /\ reqLog' = IF stream.phase = "created"
                 THEN Append(reqLog, Logged(StreamRequest, outcome))
                 ELSE [reqLog EXCEPT ![Len(reqLog)].outcome = outcome]

\* Lines 134-142 and 254: the raw lines one next() takes from iter_lines():
\* the loop of _stream_request runs on over the skipped lines and is
\* suspended at `yield line`, that of the decoder at `yield rep.data`.
FetchedAhead(blanks, raw_line) == Append(blanks, raw_line) \o <<raw_line>>

Fetched(blanks, raw_line) == Append(blanks, raw_line)

\* The body of _stream_request and of the decoding loop from the current
\* position to the next yield or to the end: the skipped lines read, then a
\* line with a text, the end of the body, or a transport error.  status is
\* the status of the response, already checked by raise_for_status.
ReadOn(status) ==
  \E blanks \in SeqsUpTo(BlankLines, MaxBlank - Len(Blank(stream.read))) :
    \/ \E raw_line \in TextLines :
         /\ Len(NonBlank(stream.read)) < MaxLines
         /\ LET item == Decoded(Framed(raw_line))
            IN  IF item.st = "raise"
                  THEN StreamRaised(item.err, ConnAfterWith, status, Fetched(blanks, raw_line),
                                    "error")
                  ELSE /\ stream' = [stream EXCEPT
                            !.phase = "open", !.conn = "open", !.status = status,
                            !.pulls = @ + 1,
                            !.read = @ \o Fetched(blanks, raw_line),
                            !.yielded = Append(@, item.val), !.last = Return(item.val)]
                       /\ reqLog' = IF stream.phase = "created"
                                      THEN Append(reqLog, Logged(StreamRequest, "ok"))
                                      ELSE reqLog
    \/ /\ stream' = [stream EXCEPT !.phase = "exhausted", !.conn = ConnAfterWith,
                                   !.status = status,
                                   !.pulls = @ + 1, !.read = @ \o blanks,
                                   !.last = [NoOutcome EXCEPT !.st = "stop"]]
       /\ reqLog' = IF stream.phase = "created"
                      THEN Append(reqLog, Logged(StreamRequest, "ok")) ELSE reqLog
    \/ StreamRaised(PluginDaemonInnerError(-500, "Request to Plugin Daemon Service failed"),
                    ConnAfterWith, status, blanks, "transport_error")

\* The statuses the daemon answers a stream request with
StreamStatuses == {200, 404, 500}

\* next() on the generator: the first one opens the connection
Pull ==
  /\ call.op = "invoke"
  /\ stream.phase \in {"created", "open"}
  /\ UNCHANGED <<self, call, resp, unwrapped, ret>>
  /\ IF stream.phase = "created"
       THEN \/ StreamRaised(PluginDaemonInnerError(-500, "Request to Plugin Daemon Service failed"),
                            "none", 0, <<>>, "transport_error")
            \/ \E status \in StreamStatuses :
                 IF RaiseForStatus(status)
                   THEN StreamRaised(HTTPStatusError(status), ConnAfterWith, status, <<>>,
                                     "http_status")
                   ELSE ReadOn(status)
       ELSE ReadOn(stream.status)

\* close() on the generator, or its disposal, before its end
Close ==
  /\ call.op = "invoke"
  /\ stream.phase \in {"created", "open"}
  /\ stream' = [stream EXCEPT !.phase = "closed",
                              !.conn = IF stream.conn = "open" THEN ConnAfterWith ELSE @]
  /\ UNCHANGED <<self, call, reqLog, resp, unwrapped, ret>>

Init ==
  /\ call = [op |-> "none"]
  /\ reqLog = <<>>
  /\ resp = NoResp
  /\ unwrapped = NoOutcome
  /\ ret = NoOutcome
  /\ stream = NoStream
  /\ self = BasePluginClient(PluginConfig)

Next ==
  \/ Uninstall
  \/ FetchPluginReadme
  \/ InstallFromIdentifiers
  \/ FetchToolProviders
  \/ FetchToolProvider
  \/ Invoke
  \/ Pull
  \/ Close

Spec == Init /\ [][Next]_vars

(***************************************************************************)
(* _parse_tool_provider_id on its own: every reference up to MaxRefLen.    *)
(***************************************************************************)
Refs == SeqsUpTo(Chars, MaxRefLen)

InitParse ==
  /\ call \in {[op |-> "parse_input", tool_provider |-> r] : r \in Refs}
  /\ reqLog = <<>>
  /\ resp = NoResp
  /\ unwrapped = NoOutcome
  /\ ret = NoOutcome
  /\ stream = NoStream
  /\ self = BasePluginClient(PluginConfig)

ParseRef ==
  /\ call.op = "parse_input"
  /\ call' = [call EXCEPT !.op = "_parse_tool_provider_id"]
  /\ ret' = _parse_tool_provider_id(call.tool_provider)
  /\ UNCHANGED <<self, reqLog, resp, unwrapped, stream>>

NextParse == ParseRef

SpecParse == InitParse /\ [][NextParse]_vars

(***************************************************************************)
(* _prepare_request on its own: the headers and the data a caller of       *)
(* _request or _stream_request may pass.                                   *)
(***************************************************************************)
HeaderNames == {"X-Api-Key", "x-api-key", "Accept-Encoding", "Content-Type"}

HeaderValues == {"identity", "application/json"}

CallerHeaders ==
  {NoneHeaders} \cup
  {GivenHeaders(h) : h \in UNION {[S -> HeaderValues] : S \in SUBSET HeaderNames}}

DataTypes == {"none", "dict", "bytes"}

CallerData(type) ==
  IF type = "dict" THEN DictData([k |-> "v"])
  ELSE IF type = "bytes" THEN [type |-> "bytes", value |-> <<"bytes", "raw">>]
  ELSE NoData

InitPrepare ==
  /\ \E kind \in {"single", "stream"}, headers \in CallerHeaders, type \in DataTypes :
       call = [op |-> "prepare_input", kind |-> kind, headers |-> headers, data |-> type]
  /\ reqLog = <<>>
  /\ resp = NoResp
  /\ unwrapped = NoOutcome
  /\ ret = NoOutcome
  /\ stream = NoStream
  /\ self = BasePluginClient(PluginConfig)

\* _request (line 56) or _stream_request (line 115) calls _prepare_request
Prepare ==
  /\ call.op = "prepare_input"
  /\ call' = [call EXCEPT !.op = "_prepare_request"]
  /\ ret' = Return(<<"request",
               PreparedRequest(call.kind, "POST", <<"plugin", TenantId, "x">>,
                               HeadersOrEmpty(call.headers), CallerData(call.data), NoHeaders)>>)
  /\ UNCHANGED <<self, reqLog, resp, unwrapped, stream>>

NextPrepare == Prepare

SpecPrepare == InitPrepare /\ [][NextPrepare]_vars

(***************************************************************************)
(* Two callers on one client instance, each issuing one single-shot        *)
(* operation.  A call is two steps, between which the other caller may     *)
(* run: the request is prepared from self and sent (httpx.request, a       *)
(* connection of its own per call), then the response is received and      *)
(* unwrapped.  call, reqLog, resp, unwrapped and ret are the locals of     *)
(* each caller; self is the one object they share.                         *)
(***************************************************************************)
Callers == {1, 2}

ConcurrentCalls ==
  {[op |-> "uninstall", arg |-> id] : id \in {"inst1", "inst2"}} \cup
  {[op |-> "fetch_plugin_readme", arg |-> "plugin1"]}

RequestOf(c) ==
  IF c.op = "uninstall" THEN UninstallRequest(c.arg) ELSE ReadmeRequest(c.arg, "en_US")

\* The ways the daemon may answer each of them
ResponsesTo(c) ==
  {TransportFailure, Response(TRUE, 404, NotJson), Response(TRUE, 500, NotJson),
   Response(TRUE, 200, NotJson),
   Response(TRUE, 200, Envelope(1, Msg("structured", "PluginNotFoundError", "m1"), Null))} \cup
  {Response(TRUE, 200, Envelope(0, OkMsg, Data(v))) :
     v \in IF c.op = "uninstall" THEN {Bool(TRUE), Bool(FALSE)} ELSE Readmes}

ResultOf(c, response) ==
  LET result == _request_with_plugin_daemon_response(response, NoTransformer)
  IN  IF c.op = "uninstall" THEN result ELSE ReadmeResult(result)

InitConcurrent ==
  /\ self = BasePluginClient(PluginConfig)
  /\ call = [p \in Callers |-> [op |-> "none", arg |-> ""]]
  /\ reqLog = [p \in Callers |-> <<>>]
  /\ resp = [p \in Callers |-> NoResp]
  /\ unwrapped = [p \in Callers |-> NoOutcome]
  /\ ret = [p \in Callers |-> NoOutcome]
  /\ stream = NoStream

\* _prepare_request and httpx.request with a url and headers that are
\* locals of the call; a client that kept the prepared url in self.base_url
SendKeepingUrl(p) ==
  /\ call[p].op = "none"
  /\ \E c \in ConcurrentCalls :
       /\ call' = [call EXCEPT ![p] = c]
       /\ reqLog' = [reqLog EXCEPT ![p] = <<Logged(RequestOf(c), "pending")>>]
       /\ self' = [self EXCEPT !.base_url = "http://localhost:5002/plugin"]
  /\ UNCHANGED <<resp, unwrapped, ret, stream>>

Send(p) ==
  /\ call[p].op = "none"
  /\ \E c \in ConcurrentCalls :
       /\ call' = [call EXCEPT ![p] = c]
       /\ reqLog' = [reqLog EXCEPT ![p] = <<Logged(RequestOf(c), "pending")>>]
  /\ UNCHANGED <<self, resp, unwrapped, ret, stream>>

\* The response arrives and the call returns or raises
Receive(p) ==
  /\ call[p].op # "none"
  /\ reqLog[p][1].outcome = "pending"
  /\ \E response \in ResponsesTo(call[p]) :
       LET result == _request_with_plugin_daemon_response(response, NoTransformer)
       IN  /\ reqLog' = [reqLog EXCEPT ![p][1].outcome = Outcome(response, result)]
           /\ resp' = [resp EXCEPT ![p] = response]
           /\ unwrapped' = [unwrapped EXCEPT ![p] = result]
           /\ ret' = [ret EXCEPT ![p] = ResultOf(call[p], response)]
  /\ UNCHANGED <<self, call, stream>>

NextConcurrent == \E p \in Callers : Send(p) \/ Receive(p)

SpecConcurrent == InitConcurrent /\ [][NextConcurrent]_vars

(***************************************************************************)
(* _cast_tool_parameter_value on its own: every declared type, with and    *)
(* without options, on raw values of every Python type the cast tells      *)
(* apart; then the cast of the result with the same declaration.           *)
(***************************************************************************)
CastStrings ==
  {PyStr(<<>>),
   PyStr(<<"y", "e", "s">>),
   PyStr(<<"Y", "e", "s">>),
   PyStr(<<"T", "R", "U", "E">>),
   PyStr(<<"y">>),
   PyStr(<<"1">>),
   PyStr(<<"m", "a", "y", "b", "e">>),
   PyStr(<<"n", "o">>),
   PyStr(<<"N">>),
   PyStr(<<"0">>),
   PyStr(<<"F", "a", "l", "s", "e">>),
   PyStr(<<"3">>),
   PyStr(<<"3", ".", "5">>),
   PyStr(<<"a", "b", "c">>),
   PyStr(<<".">>),
   PyStr(<<" ", "3">>),
   PyStr(<<"-", "2">>),
   PyStr(<<"3", ".">>),
   PyStr(<<"1", ".", "0">>),
   PyStr(<<"a">>)}

CastValues ==
  {PyNone} \cup CastStrings \cup
  {PyInt(0), PyInt(1), PyInt(3), PyInt(-2), PyBool(TRUE), PyBool(FALSE),
   PyFloat(35, 1), PyFloat(0, 0), PyFloat(1, 0),
   PyList(<<>>), PyList(<<PyStr(<<"f">>)>>), PyList(<<PyStr(<<"f">>), PyStr(<<"g">>)>>),
   PyList(<<PyList(<<>>)>>), PyList(<<PyList(<<PyStr(<<"f">>)>>)>>)}

\* options: None or empty, a list of str, a list of int
CastOptions ==
  {<<>>, <<PyStr(<<"1">>), PyStr(<<"a">>), PyStr(<<"3", ".", "5">>)>>, <<PyInt(1), PyInt(3)>>}

InitCast ==
  /\ \E type \in ToolParameterTypes, required \in BOOLEAN, options \in CastOptions,
        value \in CastValues :
       call = [op |-> "cast_input",
               param |-> ToolParameter(<<"q">>, type, required, options), value |-> value]
  /\ reqLog = <<>>
  /\ resp = NoResp
  /\ unwrapped = NoOutcome
  /\ ret = NoOutcome
  /\ stream = NoStream
  /\ self = BasePluginClient(PluginConfig)

Cast ==
  /\ call.op = "cast_input"
  /\ call' = [call EXCEPT !.op = "_cast_tool_parameter_value"]
  /\ ret' = _cast_tool_parameter_value(call.param, call.value)
  /\ UNCHANGED <<self, reqLog, resp, unwrapped, stream>>

\* The value returned is cast once more with the same declaration; the
\* outcome of the second cast is kept in unwrapped.
CastAgain ==
  /\ call.op = "_cast_tool_parameter_value"
  /\ ret.st = "return"
  /\ call' = [call EXCEPT !.op = "cast_again"]
  /\ unwrapped' = _cast_tool_parameter_value(call.param, ret.val)
  /\ UNCHANGED <<self, reqLog, resp, ret, stream>>

NextCast == Cast \/ CastAgain

SpecCast == InitCast /\ [][NextCast]_vars

(***************************************************************************)
(* _normalize_tool_parameters on its own, after a successful provider      *)
(* fetch: declarations of up to MaxDeclared parameters (two of one name    *)
(* included) and raw dicts whose keys are declared or not, in any order.   *)
(***************************************************************************)
MaxDeclared == 2

DeclaredChoices ==
  {ToolParameter(name, type, required, <<>>) :
     name \in {<<"q">>, <<"r">>}, type \in {"number", "string"}, required \in BOOLEAN}

RawKeys == {<<"q">>, <<"r">>, <<"x">>}

RawValues == {PyNone, PyStr(<<"3">>), PyInt(7), PyStr(<<"a", "b", "c">>)}

\* dicts: no key twice
RawDicts ==
  {d \in SeqsUpTo({Item(k, v) : k \in RawKeys, v \in RawValues}, Cardinality(RawKeys)) :
     \A i, j \in 1..Len(d) : d[i].k = d[j].k => i = j}

InitNormalize ==
  /\ \E parameters \in SeqsUpTo(DeclaredChoices, MaxDeclared), tool_name \in ToolNames,
        tool_parameters \in RawDicts :
       call = [op |-> "normalize_input", parameters |-> parameters,
               tool_name |-> tool_name, tool_parameters |-> tool_parameters]
  /\ reqLog = <<>>
  /\ resp = NoResp
  /\ unwrapped = NoOutcome
  /\ ret = NoOutcome
  /\ stream = NoStream
  /\ self = BasePluginClient(PluginConfig)

\* Lines 492-507, the provider fetched declaring one tool, "t"
Normalize ==
  /\ call.op = "normalize_input"
  /\ call' = [call EXCEPT !.op = "_normalize_tool_parameters"]
  /\ LET provider == Provider(<<"o", "/", "p">>, <<"o", "/", "p", "/", "a">>,
                               <<Tool(<<"t">>, <<"o", "/", "p", "/", "a">>, call.parameters)>>)
         normalized == _normalize_tool_parameters(Return(<<"provider", provider>>),
                                                  call.tool_name, call.tool_parameters)
     IN  ret' = IF normalized.st = "return" THEN Return(<<"dict", normalized.val>>)
                ELSE normalized
  /\ UNCHANGED <<self, reqLog, resp, unwrapped, stream>>

NextNormalize == Normalize

SpecNormalize == InitNormalize /\ [][NextNormalize]_vars

(***************************************************************************)
(* _handle_plugin_daemon_error on its own.                                 *)
(***************************************************************************)
DispatchTypes ==
  ErrorTypes \cup {"plugininvokeerror", "PluginError", "Exception", "ValueError",
                   "PluginInvokeError "}

DispatchTexts == {"m1", "m2", "m3", ""}

InitDispatch ==
  /\ call \in {[op |-> "dispatch_input", error_type |-> et, message |-> m] :
                 et \in DispatchTypes, m \in DispatchTexts}
  /\ reqLog = <<>>
  /\ resp = NoResp
  /\ unwrapped = NoOutcome
  /\ ret = NoOutcome
  /\ stream = NoStream
  /\ self = BasePluginClient(PluginConfig)

Dispatch ==
  /\ call.op = "dispatch_input"
  /\ call' = [call EXCEPT !.op = "_handle_plugin_daemon_error"]
  /\ ret' = Raise(_handle_plugin_daemon_error(call.error_type, call.message))
  /\ UNCHANGED <<self, reqLog, resp, unwrapped, stream>>

NextDispatch == Dispatch

SpecDispatch == InitDispatch /\ [][NextDispatch]_vars

(***************************************************************************)
(* _stream_request on its own: the line loop of lines 134-142 over a body  *)
(* of up to MaxLines raw lines of a 2xx response, one next() at a time.    *)
(***************************************************************************)
TextA == Text(Envelope(0, OkMsg, Data(<<"text", "hi">>)))

TextB == Text(NotJson)

RawLines ==
  {<<>>, <<Ws>>, <<Ws, Ws>>, <<DataPrefix>>, <<DataPrefix, Ws>>, <<Ws, DataPrefix, Ws>>,
   <<TextA>>, <<TextB>>, <<Ws, TextA, Ws>>, <<TextA, Ws, TextB>>,
   <<DataPrefix, TextA>>, <<DataPrefix, Ws, TextB>>, <<Ws, DataPrefix, Ws, TextA, Ws, Ws>>,
   <<DataPrefix, DataPrefix, TextA>>, <<DataPrefix, Ws, DataPrefix, Ws, TextB>>,
   <<TextA, DataPrefix, Ws>>, <<TextB, Ws, DataPrefix, TextA>>}

\* The index of the first line from pos on that the loop yields, and
\* Len(body) + 1 when it skips them all: `if not raw_line: continue` and
\* `if line:` of lines 135 and 141.
RECURSIVE NextYield(_, _)
NextYield(body, pos) ==
  IF pos > Len(body) THEN pos
  ELSE IF Framed(body[pos]) # <<>> THEN pos
  ELSE NextYield(body, pos + 1)

InitFraming ==
  /\ \E body \in SeqsUpTo(RawLines, MaxLines) : call = [op |-> "_stream_request", body |-> body]
  /\ reqLog = <<>>
  /\ resp = NoResp
  /\ unwrapped = NoOutcome
  /\ ret = NoOutcome
  /\ stream = [NoStream EXCEPT !.phase = "open", !.conn = "open", !.status = 200]
  /\ self = BasePluginClient(PluginConfig)

\* next() on the generator _stream_request returns
NextLine ==
  /\ call.op = "_stream_request"
  /\ stream.phase = "open"
  /\ LET pos == NextYield(call.body, Len(stream.read) + 1)
     IN  IF pos > Len(call.body)
           THEN /\ stream' = [stream EXCEPT !.phase = "exhausted", !.conn = ConnAfterWith,
                                            !.pulls = @ + 1, !.read = call.body,
                                            !.last = [NoOutcome EXCEPT !.st = "stop"]]
                /\ ret' = Return(<<"lines", stream.yielded>>)
           ELSE /\ stream' = [stream EXCEPT !.pulls = @ + 1,
                                            !.read = SubSeq(call.body, 1, pos),
                                            !.yielded = Append(@, Framed(call.body[pos])),
                                            !.last = Return(<<"line", Framed(call.body[pos])>>)]
                /\ ret' = ret
  /\ UNCHANGED <<self, call, reqLog, resp, unwrapped>>

NextFraming == NextLine

SpecFraming == InitFraming /\ [][NextFraming]_vars

(***************************************************************************)
(* entities/tools.py: ToolInvokeMessage.JsonMessage.  A value of the wire  *)
(* object is absent (no such key), null, a JSON object or other JSON.      *)
(***************************************************************************)
JsonAbsent == <<"absent", "">>

JsonNull == <<"null", "">>

JsonMap(m) == <<"dict", m>>

JsonOther == <<"list", "l1">>

\* None, the default of both fields
JsonNone == <<"none", "">>

\* A field of type dict | None with default None, from the wire value
JsonField(v) == IF v[1] \in {"absent", "null"} THEN JsonNone ELSE v

\* Lines 110-113
model_post_init(m) ==
  IF m.data = JsonNone /\ m.json_object # JsonNone THEN [m EXCEPT !.data = m.json_object]
  ELSE m

\* Lines 103-108: validation of a wire object.  The first field is read
\* under its alias `json`, or under its name `data` (populate_by_name);
\* keys that are no field are kept aside (extra="allow").
JsonMessage(input) ==
  IF input.json[1] = "list" \/ input.json_object[1] = "list"
    THEN Raise(ValidationError("dict_type"))
    ELSE Return(<<"JsonMessage",
                  model_post_init([data |-> JsonField(input.json),
                                   json_object |-> JsonField(input.json_object)])>>)

\* Lines 115-121
_coalesce_object_first(data, json_object) ==
  IF json_object # JsonNone THEN json_object
  ELSE IF data # JsonNone THEN data
  ELSE JsonMap("empty")

_coalesce(data, json_object) ==
  IF data # JsonNone THEN data
  ELSE IF json_object # JsonNone THEN json_object
  ELSE JsonMap("empty")

\* Lines 123-125: the property `normalized`
JsonMessage_normalized(m) == _coalesce(m.data, m.json_object)

JsonWireValues == {JsonAbsent, JsonNull, JsonOther} \cup {JsonMap(m) : m \in {"empty", "m1", "m2"}}

InitJsonMessage ==
  /\ \E json \in JsonWireValues, json_object \in JsonWireValues, by_name \in BOOLEAN :
       /\ by_name => json # JsonAbsent
       /\ call = [op |-> "JsonMessage",
                  input |-> [json |-> json, json_object |-> json_object, by_name |-> by_name]]
  /\ reqLog = <<>>
  /\ resp = NoResp
  /\ unwrapped = NoOutcome
  /\ ret = NoOutcome
  /\ stream = NoStream
  /\ self = BasePluginClient(PluginConfig)

\* ToolInvokeMessage.JsonMessage.model_validate(input)
ValidateJsonMessage ==
  /\ call.op = "JsonMessage"
  /\ ret = NoOutcome
  /\ ret' = JsonMessage(call.input)
  /\ UNCHANGED <<self, call, reqLog, resp, unwrapped, stream>>

\* message.normalized, read on the validated message
ReadNormalized ==
  /\ call.op = "JsonMessage"
  /\ ret.st = "return"
  /\ unwrapped = NoOutcome
  /\ unwrapped' = Return(JsonMessage_normalized(ret.val[2]))
  /\ UNCHANGED <<self, call, reqLog, resp, ret, stream>>

NextJsonMessage == ValidateJsonMessage \/ ReadNormalized

SpecJsonMessage == InitJsonMessage /\ [][NextJsonMessage]_vars

(***************************************************************************)
(* resolve_dify_schema_refs on its own: object schemas with definitions    *)
(* under "$defs", under "definitions", under both or under neither, a      *)
(* property x that is one of a family of nodes and a property y that       *)
(* refers to definition B.                                                 *)
(***************************************************************************)
RefNode(ref) == SDict(<<Item("$ref", ref)>>)

DefsRef(name) == SStr(<<"#", "$defs", name>>)

StringSchema ==
  SDict(<<Item("type", SStr(<<"string">>)), Item("description", SStr(<<"def">>))>>)

NumberSchema == SDict(<<Item("type", SStr(<<"number">>))>>)

PlainDefinitions == <<Item("A", StringSchema), Item("B", NumberSchema)>>

\* plain ones, a chain B -> A, A referring to itself, A and B referring to
\* each other from inside, and a definition that is no object
DefinitionSets ==
  {PlainDefinitions,
   <<Item("A", StringSchema),
     Item("B", SDict(<<Item("$ref", DefsRef("A")), Item("title", SStr(<<"b">>))>>))>>,
   <<Item("A", RefNode(DefsRef("A"))), Item("B", NumberSchema)>>,
   <<Item("A", SDict(<<Item("items", RefNode(DefsRef("B")))>>)),
     Item("B", SDict(<<Item("anyOf", SList(<<RefNode(DefsRef("A"))>>))>>))>>,
   <<Item("A", SStr(<<"x">>)), Item("B", NumberSchema)>>}

SchemaSections ==
  {<<Item(section, SDict(defs))>> : section \in {"$defs", "definitions"}, defs \in DefinitionSets}
  \cup {<<Item("$defs", SDict(<<Item("B", NumberSchema)>>)),
          Item("definitions", SDict(PlainDefinitions))>>,
        <<Item("$defs", SDict(<<>>)), Item("definitions", SDict(PlainDefinitions))>>,
        <<>>}

RefValues ==
  {DefsRef("A"), DefsRef("B"), DefsRef("M"), SStr(<<"#", "definitions", "A">>),
   SStr(<<"#", "components", "A">>), SStr(<<"other.json">>), SInt(5)}

Siblings ==
  {<<>>, <<Item("description", SStr(<<"loc">>))>>, <<Item("items", RefNode(DefsRef("A")))>>}

XNodes ==
  {SDict(<<Item("$ref", ref)>> \o siblings) : ref \in RefValues, siblings \in Siblings}
  \cup {SDict(<<Item("description", SStr(<<"loc">>)), Item("$ref", ref)>>) : ref \in RefValues}
  \cup {SDict(<<Item("items", RefNode(DefsRef("A")))>>),
        SDict(<<Item("anyOf", SList(<<RefNode(DefsRef("A")), RefNode(DefsRef("M"))>>))>>)}

Schemas ==
  {SDict(sections \o
         <<Item("type", SStr(<<"object">>)),
           Item("properties", SDict(<<Item("x", x), Item("y", RefNode(DefsRef("B")))>>))>>) :
     sections \in SchemaSections, x \in XNodes}
  \cup {SList(<<RefNode(DefsRef("A"))>>)}

InitResolve ==
  /\ \E schema \in Schemas : call = [op |-> "resolve_dify_schema_refs", schema |-> schema]
  /\ reqLog = <<>>
  /\ resp = NoResp
  /\ unwrapped = NoOutcome
  /\ ret = NoOutcome
  /\ stream = NoStream
  /\ self = BasePluginClient(PluginConfig)

Resolve ==
  /\ call.op = "resolve_dify_schema_refs"
  /\ ret = NoOutcome
  /\ ret' = resolve_dify_schema_refs(call.schema)
  /\ UNCHANGED <<self, call, reqLog, resp, unwrapped, stream>>

NextResolve == Resolve

SpecResolve == InitResolve /\ [][NextResolve]_vars

(***************************************************************************)
(* Properties.                                                             *)
(***************************************************************************)
\* A single-shot request of the current call got a 2xx response holding an
\* envelope (an int code and a str message).
GotEnvelope ==
  /\ Len(reqLog) >= 1
  /\ resp.transport_ok
  /\ IsSuccess(resp.status)
  /\ resp.body.kind = "envelope"

\* Two provider declarations that differ at most in the provider
\* back-reference of their tools, which the transformers overwrite.
SameButToolProvider(a, b) ==
  /\ a.plugin_id = b.plugin_id
  /\ a.declaration.identity = b.declaration.identity
  /\ Len(a.declaration.tools) = Len(b.declaration.tools)
  /\ \A i \in 1..Len(a.declaration.tools) :
       /\ a.declaration.tools[i].identity.name = b.declaration.tools[i].identity.name
       /\ a.declaration.tools[i].parameters = b.declaration.tools[i].parameters

\* The unwrapped value is the data of the envelope, typed
IsDataOf(val, data) ==
  /\ val[1] = data[1]
  /\ CASE val[1] = "provider" -> SameButToolProvider(val[2], data[2])
       [] val[1] = "providers" ->
            /\ Len(val[2]) = Len(data[2])
            /\ \A i \in 1..Len(val[2]) : SameButToolProvider(val[2][i], data[2][i])
       [] OTHER -> val = data

CallTransformer ==
  IF call.op = "fetch_tool_providers" THEN ProvidersTransformerOf
  ELSE IF call.op = "fetch_tool_provider"
    THEN ProviderTransformerOf(_parse_tool_provider_id(call.provider).val[2])
  ELSE IF call.op = "invoke"
    THEN ProviderTransformerOf(_parse_tool_provider_id(call.tool_provider).val[2])
  ELSE NoTransformer

LinesDecoded == [i \in 1..Len(NonBlank(stream.read)) |-> LineBody(Framed(NonBlank(stream.read)[i]))]

\* A line that decodes as an envelope with code 0 and data
Yieldable(body) ==
  body.kind = "envelope" /\ body.data.valid /\ body.code = 0 /\ body.data.present

\* C2: the items yielded are, in order, the data of the decoded code 0 lines
\* before the first failing line; a line with a non-zero code ends the
\* sequence by raising and nothing is read or yielded after it; the end of
\* the body ends the sequence without an error.
C2_StreamYieldsUntilFirstFailure ==
  call.op = "invoke" =>
    LET lines == LinesDecoded
        k == Len(stream.yielded)
    IN  /\ k <= Len(lines) /\ Len(lines) <= k + 1
        /\ \A i \in 1..k : Yieldable(lines[i]) /\ stream.yielded[i] = lines[i].data.value
        /\ Len(lines) = k + 1 =>
             /\ ~Yieldable(lines[k + 1])
             /\ stream.phase = "raised"
             /\ stream.last.st = "raise"
        /\ \A i \in 1..Len(lines) :
             (lines[i].kind = "envelope" /\ lines[i].code # 0) =>
               (i = Len(lines) /\ i = k + 1 /\ stream.phase = "raised")
        /\ stream.phase = "exhausted" => (stream.last.st = "stop" /\ Len(lines) = k)

C2_Witness ==
  /\ stream.phase = "raised"
  /\ Len(stream.yielded) = 1
  /\ Len(LinesDecoded) = 2
  /\ LinesDecoded[2].kind = "envelope"
  /\ LinesDecoded[2].code # 0
  /\ LinesDecoded[2].data.present

\* The stream ended on a line whose envelope has a non-zero code and a
\* structured message
StructuredErrorLine ==
  /\ call.op = "invoke"
  /\ stream.phase = "raised"
  /\ Len(LinesDecoded) = Len(stream.yielded) + 1
  /\ ValidEnvelope(LinesDecoded[Len(LinesDecoded)])
  /\ LinesDecoded[Len(LinesDecoded)].code # 0
  /\ LinesDecoded[Len(LinesDecoded)].message.shape = "structured"

\* C3: a stream line with a non-zero code and a structured message raises
\* the error the dispatcher gives for its error_type, as the unwrap does.
C3_StreamDispatchesAsUnwrap ==
  StructuredErrorLine =>
    stream.last.err =
      _handle_plugin_daemon_error(LinesDecoded[Len(LinesDecoded)].message.error_type,
                                  LinesDecoded[Len(LinesDecoded)].message.text)

\* The error that reaches the caller for the i-th request of the call
ErrorAtCaller(i) == IF reqLog[i].request.kind = "stream" THEN stream.last ELSE ret

\* C4: a transport failure of a request, single-shot or streaming, reaches
\* the caller as PluginDaemonInnerError with code -500.
C4_TransportFailureIsInnerError ==
  \A i \in 1..Len(reqLog) :
    reqLog[i].outcome = "transport_error" =>
      /\ ErrorAtCaller(i).st = "raise"
      /\ ErrorAtCaller(i).err.kind = "PluginDaemonInnerError"
      /\ ErrorAtCaller(i).err.code = -500

\* C5: the dispatcher raises, for each known error_type, the kind of that
\* name with the message (code -500 for PluginDaemonInnerError, which alone
\* has a code), and for any other string the catch-all with both strings.
C5_DispatchFollowsTable ==
  call.op = "_handle_plugin_daemon_error" =>
    /\ ret.st = "raise"
    /\ ret.val = NoVal
    /\ ret.err.text = call.message
    /\ call.error_type \in KnownErrorTypes =>
         /\ ret.err.kind = call.error_type
         /\ ret.err.error_type = ""
         /\ ret.err.code = (IF call.error_type = "PluginDaemonInnerError" THEN -500 ELSE 0)
    /\ call.error_type \notin KnownErrorTypes =>
         /\ ret.err.kind = "Exception"
         /\ ret.err.tag = "unknown"
         /\ ret.err.error_type = call.error_type

C5_Witness ==
  /\ call.op = "_handle_plugin_daemon_error"
  /\ call.error_type = "PluginDaemonNotFoundError"
  /\ ret.err.kind = "PluginDaemonNotFoundError"

ValidationTags ==
  {"identifiers must be provided", "metas length must match identifiers",
   "metas must be a list of dictionaries"}

Slashes(ref) == {i \in 1..Len(ref) : ref[i] = "/"}

LastSlash(ref) == CHOOSE i \in Slashes(ref) : \A j \in Slashes(ref) : j <= i

AfterLastSlash(ref) == SubSeq(ref, LastSlash(ref) + 1, Len(ref))

BeforeLastSlash(ref) == SubSeq(ref, 1, LastSlash(ref) - 1)

OkResponse(value) == Response(TRUE, 200, Envelope(0, OkMsg, Data(value)))

\* The provider is normalized: its name is plugin_id/name of the provider
\* sent and every tool refers to that name.
NormalizedFrom(got, sent) ==
  /\ got.plugin_id = sent.plugin_id
  /\ got.declaration.identity.name = sent.plugin_id \o <<"/">> \o sent.declaration.identity.name
  /\ Len(got.declaration.tools) = Len(sent.declaration.tools)
  /\ \A j \in 1..Len(got.declaration.tools) :
       /\ got.declaration.tools[j].identity.provider = got.declaration.identity.name
       /\ got.declaration.tools[j].identity.name = sent.declaration.tools[j].identity.name

\* C8: every provider returned by fetch_tool_providers and fetch_tool_provider
\* has the display name plugin_id/name and tools that refer to that name, and
\* the two paths return the same provider for the same daemon declaration.
C8_ProvidersNormalizedAlike ==
  /\ (call.op = "fetch_tool_providers" /\ ret.st = "return") =>
       LET sent == resp.body.data.value[2]
           got == ret.val[2]
       IN  /\ Len(got) = Len(sent)
           /\ \A i \in 1..Len(got) :
                /\ NormalizedFrom(got[i], sent[i])
                /\ \A ref \in {<<"p", "/", "a">>, <<"o", "/", "p", "/", "b">>} :
                     Return(<<"provider", got[i]>>) =
                       FetchToolProviderResult(_parse_tool_provider_id(ref).val[2],
                                               OkResponse(<<"provider", sent[i]>>))
  /\ (call.op = "fetch_tool_provider" /\ ret.st = "return") =>
       LET sent == resp.body.data.value[2]
           got == ret.val[2]
       IN  /\ NormalizedFrom(got, sent)
           /\ Return(<<"providers", <<got>>>>) =
                FetchToolProvidersResult(OkResponse(<<"providers", <<sent>>>>))

C8_Witness ==
  /\ call.op = "fetch_tool_providers"
  /\ ret.st = "return"
  /\ Len(ret.val[2]) = 2
  /\ Len(ret.val[2][1].declaration.tools) = 2
  /\ ret.val[2][1].declaration.tools[2].identity.provider = <<"o", "/", "p", "/", "b">>
  /\ ret.val[2][2].declaration.identity.name = <<"p", "/", "a">>

\* The plugin-id portion of a provider reference of 2 or 3 segments
PluginIdPortion(ref) ==
  IF Cardinality(Slashes(ref)) = 1 THEN ref ELSE BeforeLastSlash(ref)

\* The tool of the fetched declaration that invoke looks up
LookedUp ==
  LET tools == unwrapped.val[2].declaration.tools
  IN  {i \in 1..Len(tools) :
         /\ tools[i].identity.name = call.tool_name
         /\ \A j \in 1..(i - 1) : tools[j].identity.name # call.tool_name}

DeclaredParameters ==
  LET tools == unwrapped.val[2].declaration.tools
  IN  tools[CHOOSE i \in LookedUp : TRUE].parameters

\* Parsing, the provider fetch, the tool lookup and every cast succeeded
NormalizationSucceeded ==
  /\ Cardinality(Slashes(call.tool_provider)) \in {1, 2}
  /\ Len(reqLog) >= 1
  /\ reqLog[1].request.kind = "single"
  /\ reqLog[1].outcome = "ok"
  /\ unwrapped.st = "return"
  /\ LookedUp # {}
  /\ \A j \in 1..Len(DeclaredParameters) :
       _cast_tool_parameter_value(DeclaredParameters[j],
         DictGet(call.tool_parameters, DeclaredParameters[j].name)).st = "return"

\* The parameters sent are the casts of the declared ones and the raw extras
SentNormalized(sent) ==
  /\ \A j \in 1..Len(DeclaredParameters) :
       /\ HasKey(sent, DeclaredParameters[j].name)
       /\ DictGet(sent, DeclaredParameters[j].name) =
            _cast_tool_parameter_value(DeclaredParameters[j],
              DictGet(call.tool_parameters, DeclaredParameters[j].name)).val
  /\ \A i \in 1..Len(call.tool_parameters) :
       (\A j \in 1..Len(DeclaredParameters) :
          DeclaredParameters[j].name # call.tool_parameters[i].k) =>
         \E n \in 1..Len(sent) : sent[n] = call.tool_parameters[i]
  /\ \A n \in 1..Len(sent) :
       \/ \E j \in 1..Len(DeclaredParameters) : DeclaredParameters[j].name = sent[n].k
       \/ HasKey(call.tool_parameters, sent[n].k)

\* C9: invoke opens the streaming request only after normalization has
\* succeeded (never when parsing, the fetch, the lookup or a cast failed);
\* the request carries the plugin-id portion of the reference in X-Plugin-ID,
\* the provider-name portion in the body and the normalized parameters.
C9_InvokeNormalizesThenStreams ==
  call.op = "invoke" =>
    /\ stream.phase # "none" => NormalizationSucceeded
    /\ \A i \in 1..Len(reqLog) :
         reqLog[i].request.kind = "stream" =>
           /\ i = 2
           /\ NormalizationSucceeded
           /\ reqLog[i].request.headers["X-Plugin-ID"] = PluginIdPortion(call.tool_provider)
           /\ reqLog[i].request.data.enc = "json"
           /\ reqLog[i].request.data.value.data.provider = AfterLastSlash(call.tool_provider)
           /\ reqLog[i].request.data.value.data.tool = call.tool_name
           /\ SentNormalized(reqLog[i].request.data.value.data.tool_parameters)

C9_Witness ==
  /\ call.op = "invoke"
  /\ call.tool_provider = <<"o", "/", "p", "/", "a">>
  /\ Len(reqLog) = 2
  /\ reqLog[2].request.kind = "stream"
  /\ DictGet(call.tool_parameters, <<"q">>) = PyStr(<<"3">>)
  /\ DictGet(reqLog[2].request.data.value.data.tool_parameters, <<"q">>) = PyInt(3)
  /\ DictGet(reqLog[2].request.data.value.data.tool_parameters, <<"x">>) = PyInt(7)

\* C10 as stated: a call, invoke included, opens one HTTP connection and
\* never a second one.
C10_OneConnectionPerCall == Len(reqLog) <= 1

\* C10, amended: an operation other than invoke issues at most one request;
\* invoke issues at most a single-shot provider fetch and then one streaming
\* connection; only the last request of a call can have failed, and its
\* failure is raised to the caller (but for a readme fetch answered 404).
C10_NoRetryAtMostTwoForInvoke ==
  /\ call.op # "invoke" =>
       (Len(reqLog) <= 1 /\ \A i \in 1..Len(reqLog) : reqLog[i].request.kind = "single")
  /\ call.op = "invoke" =>
       /\ Len(reqLog) <= 2
       /\ Len(reqLog) >= 1 => reqLog[1].request.kind = "single"
       /\ Len(reqLog) = 2 => reqLog[2].request.kind = "stream"
  /\ \A i \in 1..Len(reqLog) :
       reqLog[i].outcome # "ok" =>
         /\ i = Len(reqLog)
         /\ \/ ErrorAtCaller(i).st = "raise"
            \/ call.op = "fetch_plugin_readme" /\ resp.status = 404

C10_Witness ==
  /\ call.op = "invoke"
  /\ Len(reqLog) = 2
  /\ reqLog[1].outcome = "ok"
  /\ reqLog[2].outcome = "transport_error"
  /\ stream.last.st = "raise"

StreamEnded == stream.phase \in {"exhausted", "raised", "closed"}

\* Something was received on the connection of the stream
ResponseReceived ==
  stream.read # <<>> \/ stream.phase = "exhausted" \/ stream.last.err.kind = "HTTPStatusError"

C12_ApiKeyAndEncodingAlwaysSent ==
  call.op = "_prepare_request" =>
    LET sent == ret.val[2].headers
        given == HeadersOrEmpty(call.headers)
    IN  /\ ret.val[2].kind = call.kind
        /\ DOMAIN sent = DOMAIN given \cup {"X-Api-Key", "Accept-Encoding"}
        /\ sent["X-Api-Key"] = ConfigKey
        /\ sent["Accept-Encoding"] =
             (IF "Accept-Encoding" \in DOMAIN given THEN given["Accept-Encoding"]
              ELSE "gzip, deflate, br")
        /\ \A n \in DOMAIN given \ {"X-Api-Key"} : sent[n] = given[n]

\* the caller supplies its own X-Api-Key and Accept-Encoding on a stream
C12_Witness ==
  /\ call.op = "_prepare_request"
  /\ call.kind = "stream"
  /\ call.headers.given
  /\ DOMAIN call.headers.value = {"X-Api-Key", "Accept-Encoding"}
  /\ call.headers.value["X-Api-Key"] = "identity"
  /\ ret.val[2].headers["X-Api-Key"] = ConfigKey
  /\ ret.val[2].headers["Accept-Encoding"] = "identity"

\* A request of the current call was answered with a non-2xx status
NonSuccessAnswer == Len(reqLog) >= 1 /\ resp.transport_ok /\ ~IsSuccess(resp.status)

\* C13: fetch_plugin_readme returns "" when the daemon answers 404; any
\* other non-2xx status on the readme fetch and every non-2xx status on
\* another operation (on the stream of an invoke too) is raised as an HTTP
\* status error carrying the status, whatever the body, before any parsing;
\* and no call returns a value unless its request got a 2xx response or it
\* is the readme fetch answered 404.
C13_OnlyReadme404IsSoftened ==
  /\ NonSuccessAnswer =>
        IF call.op = "fetch_plugin_readme" /\ resp.status = 404
          THEN ret = Return(<<"str", "">>)
          ELSE /\ ret = Raise(HTTPStatusError(resp.status))
               /\ unwrapped = ret
               /\ reqLog[1].outcome = "http_status"
  /\ (Len(reqLog) >= 1 /\ ret.st = "return") =>
        /\ resp.transport_ok
        /\ IsSuccess(resp.status) \/ (call.op = "fetch_plugin_readme" /\ resp.status = 404)
  /\ (Len(reqLog) = 2 /\ reqLog[2].outcome = "http_status") =>
        /\ stream.phase = "raised"
        /\ stream.last.st = "raise"
        /\ stream.last.err.kind = "HTTPStatusError"
        /\ ~IsSuccess(stream.last.err.code)
        /\ stream.read = <<>>
        /\ stream.yielded = <<>>

\* the daemon answers the readme fetch with 404 and an unparsable body
C13_Witness ==
  /\ call.op = "fetch_plugin_readme"
  /\ resp.transport_ok
  /\ resp.status = 404
  /\ resp.body.kind = "not_json"
  /\ unwrapped = Raise(HTTPStatusError(404))
  /\ ret = Return(<<"str", "">>)

\* What a call sends and gets when it runs alone on a new client
AloneRequest(c) ==
  [RequestOf(c) EXCEPT !.url[1] = PluginConfig.url, !.headers["X-Api-Key"] = PluginConfig.key]

\* C14: in every interleaving of two calls on one client the instance keeps
\* the fields it was constructed with, and each call sends the request and
\* gets the result it has when it runs alone: both are determined by its
\* own arguments and by the response to its own request.
C14_ConcurrentCallsIndependent ==
  /\ self = BasePluginClient(PluginConfig)
  /\ \A p \in Callers :
       IF call[p].op = "none"
         THEN reqLog[p] = <<>> /\ resp[p] = NoResp /\ ret[p] = NoOutcome
         ELSE /\ Len(reqLog[p]) = 1
              /\ reqLog[p][1].request = AloneRequest(call[p])
              /\ IF reqLog[p][1].outcome = "pending"
                    THEN resp[p] = NoResp /\ ret[p] = NoOutcome
                    ELSE /\ resp[p] \in ResponsesTo(call[p])
                         /\ ret[p] = ResultOf(call[p], resp[p])
                         /\ reqLog[p][1].outcome = Outcome(resp[p], unwrapped[p])

\* caller 1 has its result while the request of caller 2 is in flight
C14_Witness ==
  /\ call[1] = [op |-> "uninstall", arg |-> "inst1"]
  /\ ret[1] = Return(Bool(TRUE))
  /\ call[2].op = "fetch_plugin_readme"
  /\ reqLog[2][1].outcome = "pending"

\* The cast of the current call is that of a parameter of the given type
Casted(type) == call.op \in {"_cast_tool_parameter_value", "cast_again"} /\ call.param.type = type

\* c is the lower-case letter w or its capital
SameLetter(c, w) ==
  c = w \/ (w \in Range(LowerChars) /\ c = UpperChars[IndexOf(LowerChars, w)])

\* s is one of the words, letter case apart
IsWordIgnoringCase(s, words) ==
  \E w \in words : Len(s) = Len(w) /\ \A i \in 1..Len(w) : SameLetter(s[i], w[i])

\* C15: the boolean cast never fails; it gives false for a missing value,
\* true for a string that is true/yes/y/1 and false for one that is
\* false/no/n/0, letter case apart, and the truthiness of any other value:
\* a non-empty string ("maybe"), a non-zero number, true, a non-empty list.
C15_BooleanCast ==
  Casted("boolean") =>
    LET v == call.value
        expected ==
          IF v = PyNone THEN FALSE
          ELSE IF PyT(v) = "str" /\ IsWordIgnoringCase(PyV(v), TrueWords) THEN TRUE
          ELSE IF PyT(v) = "str" /\ IsWordIgnoringCase(PyV(v), FalseWords) THEN FALSE
          ELSE IF PyT(v) \in {"str", "list"} THEN Len(PyV(v)) > 0
          ELSE IF PyT(v) = "bool" THEN PyV(v)
          ELSE IF PyT(v) = "int" THEN PyV(v) # 0
          ELSE PyV(v)[1] # 0
    IN  ret = Return(PyBool(expected))

C15_Witness ==
  /\ Casted("boolean")
  /\ call.value = PyStr(<<"m", "a", "y", "b", "e">>)
  /\ ret = Return(PyBool(TRUE))

\* The numbers that the strings of CastStrings denote in Python: int(s) for
\* a string without ".", float(s) for one with it
NumberTexts ==
  {<<<<"1">>, PyInt(1)>>, <<<<"0">>, PyInt(0)>>, <<<<"3">>, PyInt(3)>>, <<<<" ", "3">>, PyInt(3)>>,
   <<<<"-", "2">>, PyInt(-2)>>, <<<<"3", ".", "5">>, PyFloat(35, 1)>>, <<<<"3", ".">>, PyFloat(3, 0)>>,
   <<<<"1", ".", "0">>, PyFloat(1, 0)>>}

\* C16: the number cast gives 0 for a missing value and a number (int,
\* float, or bool, an int in Python) unchanged; a string with a "." gives
\* the float it denotes and any other string the int it denotes ("3.5" is
\* 3.5, "3" is 3, "1.0" is the float 1.0); a string that denotes no number,
\* the empty string and a list fail with a validation error.
C16_NumberCast ==
  Casted("number") =>
    LET v == call.value
    IN  /\ v = PyNone => ret = Return(PyInt(0))
        /\ PyT(v) \in {"int", "float", "bool"} => ret = Return(v)
        /\ PyT(v) = "list" => (ret.st = "raise" /\ ret.err.kind = "ValueError")
        /\ PyT(v) = "str" =>
             IF \E t \in NumberTexts : t[1] = PyV(v)
               THEN /\ \E t \in NumberTexts : t[1] = PyV(v) /\ ret = Return(t[2])
                    /\ PyT(ret.val) = (IF "." \in Range(PyV(v)) THEN "float" ELSE "int")
               ELSE ret.st = "raise" /\ ret.err.kind = "ValueError" /\ ret.val = NoVal

C16_Witness ==
  /\ Casted("number")
  /\ call.value = PyStr(<<"3", ".", "5">>)
  /\ ret = Return(PyFloat(35, 1))

\* The string form of a present value
AsString(v) == IF PyT(v) = "str" THEN v ELSE PyStr(PyStrOf(v))

\* C17 as stated: with a non-empty option list the select cast of a present
\* value returns its string form if that string is one of the options, and
\* fails with a validation error if it is not.
C17_SelectChecksStringForm ==
  (Casted("select") /\ Len(call.param.options) > 0 /\ call.value # PyNone) =>
    LET text == AsString(call.value)
        member == \E i \in 1..Len(call.param.options) : call.param.options[i] = text
    IN  IF member THEN ret = Return(text)
        ELSE ret.st = "raise" /\ ret.err.kind = "ValueError"

DeclaredNames == {call.parameters[j].name : j \in 1..Len(call.parameters)}

LastDeclared(name) ==
  call.parameters[CHOOSE j \in 1..Len(call.parameters) :
                    /\ call.parameters[j].name = name
                    /\ \A n \in (j + 1)..Len(call.parameters) : call.parameters[n].name # name]

\* C19: when normalization returns, the map has each key once, and its keys
\* are the declared names and the raw keys that are not declared; a
\* declared name maps to the cast of its raw value, or of None if the raw
\* map has no such key; an undeclared raw entry is in the map with its key
\* and value unchanged; every declared entry comes before every undeclared
\* one, and the undeclared ones keep the order they have in the raw map.
C19_NormalizedKeysAndOrder ==
  (call.op = "_normalize_tool_parameters" /\ ret.st = "return") =>
    LET raw == call.tool_parameters
        normalized == ret.val[2]
        declared(i) == normalized[i].k \in DeclaredNames
    IN  /\ \A i, j \in 1..Len(normalized) : normalized[i].k = normalized[j].k => i = j
        /\ {normalized[i].k : i \in 1..Len(normalized)} =
             DeclaredNames \cup {raw[i].k : i \in 1..Len(raw)}
        /\ \A i \in 1..Len(normalized) :
             IF declared(i)
               THEN normalized[i].v =
                      _cast_tool_parameter_value(LastDeclared(normalized[i].k),
                        IF HasKey(raw, normalized[i].k)
                          THEN raw[CHOOSE n \in 1..Len(raw) : raw[n].k = normalized[i].k].v
                          ELSE PyNone).val
               ELSE \E n \in 1..Len(raw) : raw[n] = normalized[i]
        /\ \A i, j \in 1..Len(normalized) : (declared(i) /\ ~declared(j)) => i < j
        /\ \A i, j \in 1..Len(normalized) :
             (~declared(i) /\ ~declared(j) /\ i < j) =>
               \E m, n \in 1..Len(raw) : m < n /\ raw[m] = normalized[i] /\ raw[n] = normalized[j]

\* x, not declared, comes first in the raw map and last in the result
C19_Witness ==
  /\ call.op = "_normalize_tool_parameters"
  /\ call.tool_parameters = <<Item(<<"x">>, PyInt(7)), Item(<<"q">>, PyStr(<<"3">>))>>
  /\ call.parameters = <<ToolParameter(<<"r">>, "string", FALSE, <<>>),
                          ToolParameter(<<"q">>, "number", TRUE, <<>>)>>
  /\ ret = Return(<<"dict", <<Item(<<"r">>, PyStr(<<>>)), Item(<<"q">>, PyInt(3)),
                              Item(<<"x">>, PyInt(7))>>>>)

\* C20 as stated: whenever a cast succeeds, casting its result again with
\* the same declaration succeeds and returns the same value.
C20_CastIdempotent == call.op = "cast_again" => unwrapped = ret

\* The value has the type the declaration asks for (a bool is an int)
CorrectlyTyped(param, value) ==
  CASE param.type \in {"string", "secret-input"} -> PyT(value) = "str"
    [] param.type = "select" ->
         PyT(value) = "str" /\ (Len(param.options) = 0 \/ PyIn(value, param.options))
    [] param.type = "boolean" -> PyT(value) = "bool"
    [] param.type = "number" -> IsNumeric(value)
    [] param.type = "file" -> PyT(value) \notin {"list", "none"}
    [] param.type \in {"files", "array"} -> PyT(value) = "list"
    [] OTHER -> TRUE

\* C20, amended: the cast returns a correctly typed value unchanged, and the
\* second cast of a result returns that result, for every type, but for two
\* cases in which the result of the first cast is not correctly typed: a
\* file given as a list whose one element is a list (the second cast
\* unwraps or rejects that element), and a select with options none of
\* which equals the result (its own string form for a non-string value, ""
\* for a missing optional one): there the second cast fails.
C20_CastKeepsCorrectlyTyped ==
  /\ (call.op \in {"_cast_tool_parameter_value", "cast_again"}
       /\ CorrectlyTyped(call.param, call.value)) => ret = Return(call.value)
  /\ call.op = "cast_again" =>
       IF call.param.type = "file" /\ PyT(ret.val) = "list"
         THEN /\ PyT(call.value) = "list"
              /\ unwrapped # ret
              /\ unwrapped = (IF Len(PyV(ret.val)) = 1 THEN Return(PyV(ret.val)[1])
                              ELSE Raise(CastError("only accepts one file")))
       ELSE IF /\ call.param.type = "select"
               /\ Len(call.param.options) > 0
               /\ ~PyIn(ret.val, call.param.options)
         THEN unwrapped = Raise(CastError("not in options"))
       ELSE /\ CorrectlyTyped(call.param, ret.val) \/ call.param.type = "file"
            /\ unwrapped = ret

\* "3" cast to the number 3, which the second cast returns as it is
C20_Witness ==
  /\ call.op = "cast_again"
  /\ call.param.type = "number"
  /\ call.value = PyStr(<<"3">>)
  /\ ret = Return(PyInt(3))
  /\ unwrapped = ret

\* The stream ended on the line it decoded last: the line that failed
FailedLine == LinesDecoded[Len(LinesDecoded)]

StreamFailedOnLine ==
  /\ call.op = "invoke"
  /\ stream.phase = "raised"
  /\ Len(LinesDecoded) = Len(stream.yielded) + 1

\* C22: the stream is pull-based: the lines taken from the connection and
\* decoded never outnumber the next() calls of the consumer, nothing is
\* read before the first next(), and while the consumer holds the k-th item
\* or after it closed the stream there, the k-th yielded line is the last
\* line read: no line after it was read or decoded.
C22_StreamIsPullBased ==
  call.op = "invoke" =>
    /\ Len(NonBlank(stream.read)) <= stream.pulls
    /\ Len(stream.yielded) <= stream.pulls
    /\ stream.pulls = 0 => (stream.read = <<>> /\ Len(reqLog) <= 1)
    /\ stream.phase \in {"open", "closed"} =>
         /\ Len(NonBlank(stream.read)) = Len(stream.yielded)
         /\ stream.read # <<>> => Framed(stream.read[Len(stream.read)]) # <<>>

\* the consumer stops after the first item, which followed a skipped line
C22_Witness ==
  /\ stream.phase = "closed"
  /\ stream.pulls = 1
  /\ Len(stream.yielded) = 1
  /\ Len(stream.read) = 2

EmptyDataError == Raise(ValueError("empty_data", 0, Msg("", "", "")))

\* C23: an envelope with code 0 and no data is not returned or yielded: the
\* unwrap raises the empty data error, and so does the stream decoder at
\* that line, which is the last one read.
C23_EmptyDataIsEmptyDataError ==
  /\ (GotEnvelope /\ resp.body.code = 0 /\ ~resp.body.data.present) =>
       unwrapped = EmptyDataError
  /\ call.op = "invoke" =>
       \A i \in 1..Len(LinesDecoded) :
         (ValidEnvelope(LinesDecoded[i]) /\ LinesDecoded[i].code = 0
            /\ ~LinesDecoded[i].data.present) =>
           /\ i = Len(stream.yielded) + 1
           /\ i = Len(LinesDecoded)
           /\ stream.phase = "raised"
           /\ stream.last = EmptyDataError

\* The stream ended on an envelope with a non-zero code whose message is no
\* structured error
UnstructuredErrorLine ==
  /\ StreamFailedOnLine
  /\ ValidEnvelope(FailedLine)
  /\ FailedLine.code # 0
  /\ FailedLine.message.shape # "structured"

\* C24: for a stream line with a non-zero code whose message does not parse
\* as {error_type, message}, the decoder raises PluginDaemonInnerError with
\* code -500 and the raw message when the code is -500, and for any other
\* code a ValueError made of the raw message and the code.
C24_StreamUnstructuredError ==
  UnstructuredErrorLine =>
    /\ stream.last.st = "raise"
    /\ stream.last.err.text = FailedLine.message.text
    /\ stream.last.err.shape = FailedLine.message.shape
    /\ stream.last.err.code = FailedLine.code
    /\ stream.last.err.kind =
         IF FailedLine.code = -500 THEN "PluginDaemonInnerError" ELSE "ValueError"

C24_Witness ==
  /\ UnstructuredErrorLine
  /\ FailedLine.code = -500
  /\ FailedLine.message.shape = "plain"
  /\ stream.last.err.kind = "PluginDaemonInnerError"

\* C25: a stream whose response has a non-2xx status raises the error of
\* that status at the first next(); no body line is read and no item is
\* yielded.
C25_StreamStatusBeforeBody ==
  (call.op = "invoke" /\ stream.status # 0 /\ ~IsSuccess(stream.status)) =>
    /\ stream.phase = "raised"
    /\ stream.last = Raise(HTTPStatusError(stream.status))
    /\ stream.read = <<>>
    /\ stream.yielded = <<>>
    /\ stream.pulls = 1

C25_Witness ==
  /\ call.op = "invoke"
  /\ stream.status = 404
  /\ stream.phase = "raised"
  /\ stream.last.err.kind = "HTTPStatusError"
  /\ stream.conn = "closed"

\* C27: a stream line that is no envelope of the payload type ends the
\* stream with a ValueError that carries the `error` field of the line when
\* the line is JSON with such a field, and the raw line otherwise.
C27_UnparsableLineIsGenericError ==
  (StreamFailedOnLine /\ ~ValidEnvelope(FailedLine)) =>
    /\ stream.last.st = "raise"
    /\ stream.last.err.kind = "ValueError"
    /\ stream.last.err.tag =
         IF FailedLine.kind # "not_json" /\ FailedLine.has_error
           THEN "stream_error_field" ELSE "stream_line"


\* The tokens of a line between its first and its last token that is no
\* whitespace
NonWs(line) == {i \in 1..Len(line) : line[i].tok # "ws"}

Core(line) ==
  IF NonWs(line) = {} THEN <<>>
  ELSE SubSeq(line, CHOOSE i \in NonWs(line) : \A j \in NonWs(line) : i <= j,
                    CHOOSE i \in NonWs(line) : \A j \in NonWs(line) : i >= j)

\* What a raw line carries: its core, without one leading "data:" and the
\* whitespace around what follows it
Payload(line) ==
  IF Core(line) # <<>> /\ Core(line)[1].tok = "data:" THEN Core(Tail(Core(line)))
  ELSE Core(line)

Carrying(lines) == SelectSeq(lines, LAMBDA l : Payload(l) # <<>>)

\* C26: the lines _stream_request has yielded are the payloads of the raw
\* lines read so far that carry one, in the order of the body, each once;
\* at the end of the stream the whole body was read.
C26_FramingKeepsPayloadsInOrder ==
  call.op = "_stream_request" =>
    /\ stream.yielded = [i \in 1..Len(Carrying(stream.read)) |-> Payload(Carrying(stream.read)[i])]
    /\ stream.read = SubSeq(call.body, 1, Len(stream.read))
    /\ stream.phase = "exhausted" => stream.read = call.body
    /\ stream.phase = "open" =>
         (stream.read = <<>> \/ Payload(stream.read[Len(stream.read)]) # <<>>)

\* a prefixed line with whitespace around its text after a skipped line
C26_Witness ==
  /\ call.op = "_stream_request"
  /\ stream.phase = "exhausted"
  /\ call.body = <<<<DataPrefix, Ws>>, <<Ws, DataPrefix, Ws, TextA, Ws, Ws>>>>
  /\ stream.yielded = <<<<TextA>>>>

\* A wire value that is a JSON object
IsJsonMap(v) == v[1] = "dict"

\* C29: a wire object whose json and json_object values are objects, null
\* or missing is accepted, and the normalized view of the message is the
\* json value when that is an object, else the json_object value when that
\* is an object, else the empty map: json wins when both are objects.
C29_JsonCoalesced ==
  (call.op = "JsonMessage" /\ ret # NoOutcome) =>
    /\ (call.input.json # JsonOther /\ call.input.json_object # JsonOther) => ret.st = "return"
    /\ unwrapped # NoOutcome =>
         unwrapped = Return(IF IsJsonMap(call.input.json) THEN call.input.json
                            ELSE IF IsJsonMap(call.input.json_object) THEN call.input.json_object
                            ELSE JsonMap("empty"))

C29_Witness ==
  /\ call.op = "JsonMessage"
  /\ call.input.json = JsonMap("m1")
  /\ call.input.json_object = JsonMap("m2")
  /\ unwrapped = Return(JsonMap("m1"))

\* The node at a path of keys
RECURSIVE At(_, _)
At(node, path) == IF path = <<>> THEN node ELSE At(SGet(node, path[1]), Tail(path))

\* The paths of the nodes of a schema that may carry a $ref
RefPaths == {<<"properties", "x">>, <<"properties", "y">>, <<"properties", "x", "items">>}

\* Two JSON values are the same: dicts whatever the order of their keys
RECURSIVE SameJson(_, _)
SameJson(a, b) ==
  IF a[1] = "dict" /\ b[1] = "dict"
    THEN SKeys(a) = SKeys(b) /\ \A k \in SKeys(a) : SameJson(SGet(a, k), SGet(b, k))
  ELSE IF a[1] = "list" /\ b[1] = "list"
    THEN Len(a[2]) = Len(b[2]) /\ \A i \in 1..Len(a[2]) : SameJson(a[2][i], b[2][i])
  ELSE a = b

\* The definition a reference names: the entry of that name under the
\* section the reference points into, or else under the other section
DefinitionNamed(schema, ref) ==
  LET own == SGet(SGet(schema, ref[2][2]), RefKey(ref))
      other == SGet(SGet(schema, IF ref[2][2] = "$defs" THEN "definitions" ELSE "$defs"),
                    RefKey(ref))
  IN  IF own[1] = "dict" THEN own ELSE other

HasRef(node) == "$ref" \in SKeys(node)

\* The node refers to a definition that exists
Resolvable(schema, node) ==
  /\ IsDefinitionRef(SGet(node, "$ref"))
  /\ DefinitionNamed(schema, SGet(node, "$ref"))[1] = "dict"

\* The keys of a node but $ref
OwnKeys(node) == SKeys(node) \ {"$ref"}

\* A schema with every resolvable reference inlined
RECURSIVE Inlined(_, _)
Inlined(schema, node) ==
  IF node[1] = "dict"
    THEN LET own == [i \in 1..Len(node[2]) |-> Item(node[2][i].k, Inlined(schema, node[2][i].v))]
         IN  IF Resolvable(schema, node)
               THEN LET definition == Inlined(schema, DefinitionNamed(schema, SGet(node, "$ref")))
                    IN  SDict(SelectSeq(definition[2], LAMBDA it : it.k \notin OwnKeys(node))
                              \o SelectSeq(own, LAMBDA it : it.k # "$ref"))
               ELSE SDict(own)
  ELSE IF node[1] = "list" THEN SList([i \in 1..Len(node[2]) |-> Inlined(schema, node[2][i])])
  ELSE node

\* result is the definition with the own keys of node laid over it; an own
\* key whose value is a reference node is looked at on its own
IsOverlay(result, definition, node) ==
  /\ SKeys(result) = SKeys(definition) \cup OwnKeys(node)
  /\ \A k \in OwnKeys(node) : HasRef(SGet(node, k)) \/ SGet(result, k) = SGet(node, k)
  /\ \A k \in SKeys(definition) \ OwnKeys(node) : SameJson(SGet(result, k), SGet(definition, k))

Resolved == call.op = "resolve_dify_schema_refs" /\ ret.st = "return" /\ call.schema[1] = "dict"

\* C21: in the schema returned, every node that refers to an existing
\* definition by "#/$defs/<name>" or "#/definitions/<name>" is that
\* definition, resolved, with the other keys of the node laid over it and
\* no $ref of the node; the nodes without $ref above it keep their keys.
C21_RefNodesInlined ==
  Resolved =>
    /\ SKeys(ret.val) = SKeys(call.schema)
    /\ SKeys(SGet(ret.val, "properties")) = SKeys(SGet(call.schema, "properties"))
    /\ \A path \in RefPaths :
         Resolvable(call.schema, At(call.schema, path)) =>
           IsOverlay(At(ret.val, path),
                     Inlined(call.schema,
                             DefinitionNamed(call.schema, SGet(At(call.schema, path), "$ref"))),
                     At(call.schema, path))

\* The definitions the resolver reads
UsedDefinitions == SchemaDefinitions(call.schema)

\* The names of the definitions a node refers to, at any depth
RECURSIVE RefKeysIn(_)
RefKeysIn(node) ==
  IF node[1] = "dict"
    THEN (IF IsDefinitionRef(SGet(node, "$ref")) THEN {RefKey(SGet(node, "$ref"))} ELSE {})
         \cup UNION {RefKeysIn(node[2][i].v) : i \in 1..Len(node[2])}
  ELSE IF node[1] = "list" THEN UNION {RefKeysIn(node[2][i]) : i \in 1..Len(node[2])}
  ELSE {}

RefersTo(name) ==
  {m \in RefKeysIn(SGet(UsedDefinitions, name)) : SGet(UsedDefinitions, m)[1] = "dict"}

Reaches(name) ==
  LET one == RefersTo(name)
      two == one \cup UNION {RefersTo(m) : m \in one}
  IN  two \cup UNION {RefersTo(m) : m \in two}

\* A definition refers to itself, directly or through others
CyclicDefinitions == \E name \in SKeys(UsedDefinitions) : name \in Reaches(name)

\* The resolver finds the definition the node refers to
Found(node) ==
  /\ IsDefinitionRef(SGet(node, "$ref"))
  /\ SGet(UsedDefinitions, RefKey(SGet(node, "$ref")))[1] = "dict"

\* The definition of that name in the schema returned: resolved
ResolvedDefinition(node) == SGet(SchemaDefinitions(ret.val), RefKey(SGet(node, "$ref")))

PropertyX == At(call.schema, <<"properties", "x">>)

PropertyY == At(call.schema, <<"properties", "y">>)

C30_ResolveAlwaysReturns ==
  (call.op = "resolve_dify_schema_refs" /\ ret # NoOutcome) => ret.st = "return"

====
